---- MODULE Spec2Model ----
(***************************************************************************)
(* Model of the fgp-neon daemon: the service dispatcher (src/service.rs),   *)
(* the Neon HTTP API adapter (src/api/client.rs) and the lifecycle         *)
(* commands start / stop / status (src/main.rs).                           *)
(*                                                                         *)
(* Conventions                                                             *)
(*   - a Rust String is a sequence of string tokens; format!() is \o;      *)
(*   - Option<T> is a sequence of length 0 (None) or 1 (Some);             *)
(*   - a JSON value is a record [kind, s, n, b]; an i64 is kept at its     *)
(*     real width as four 16-bit limbs <<l3, l2, l1, l0>> (two's           *)
(*     complement, most significant first);                                *)
(*   - anyhow::Result is a record [ok, kind, msg, status, body, value].    *)
(***************************************************************************)
EXTENDS Integers, Sequences, FiniteSets, TLC

VARIABLES
    api_key,    \* NeonClient.api_key, fixed at construction
    org_id,     \* NeonClient.org_id, fixed at construction
    pc,         \* "idle" | "wait" (blocked on a remote reply) | "done"
    req,        \* the request being dispatched: [method, params]
    invoked,    \* Option<[op, args]>: the adapter operation dispatch reached
    calls,      \* the HTTP requests issued for this request, in order
    replies,    \* the remote's replies to those requests, in order
    result,     \* Option<Result<Value>>: what dispatch returned
    entry,      \* the service entry point the framework is in:
                \* "none" | "dispatch" | "on_start" | "health_check"
    logs,       \* the tracing levels the entry point has emitted, in order
    environ,    \* what the command line finds: environment variables,
                \* the neonctl credentials file, the process table
    files,      \* [socket, pid_file]: the socket file and <socket>.pid
    cli,        \* the running command: [cmd, foreground, pc, exit, api_key, org_id, pid]
    events,     \* what the running command has done, in order
    slots       \* the requests in flight on each framework worker

svcVars == <<api_key, org_id, pc, req, invoked, calls, replies, result, entry, logs>>
cliVars == <<environ, files, cli, events>>
vars == <<svcVars, cliVars, slots>>

(***************************************************************************)
(* Bounds of the model                                                     *)
(***************************************************************************)
MaxEndpoints == 2   \* longest endpoint list the remote returns
MaxItems == 1       \* longest project / branch / database list

(***************************************************************************)
(* Option and String helpers                                               *)
(***************************************************************************)
None == <<>>
Some(x) == <<x>>
IsNone(o) == Len(o) = 0
IsSome(o) == Len(o) = 1
Unwrap(o) == o[1]
unwrap_or(o, d) == IF IsSome(o) THEN o[1] ELSE d

RECURSIVE replace(_, _, _)
\* str::replace(from, to) for a one-token pattern
replace(s, from, to) ==
    IF s = <<>> THEN <<>>
    ELSE (IF Head(s) = from THEN to ELSE <<Head(s)>>) \o replace(Tail(s), from, to)

(***************************************************************************)
(* serde_json::Value                                                       *)
(***************************************************************************)
JNull == [kind |-> "null", s |-> <<>>, n |-> <<>>, b |-> FALSE]
JBool(b) == [kind |-> "bool", s |-> <<>>, n |-> <<>>, b |-> b]
JString(s) == [kind |-> "string", s |-> s, n |-> <<>>, b |-> FALSE]
\* a JSON integer that fits i64 (Number::PosInt <= i64::MAX or Number::NegInt)
JInt(limbs) == [kind |-> "int", s |-> <<>>, n |-> limbs, b |-> FALSE]
\* a JSON integer above i64::MAX (Number::PosInt > i64::MAX)
JBigUint(limbs) == [kind |-> "biguint", s |-> <<>>, n |-> limbs, b |-> FALSE]
\* a JSON number written with a fraction or exponent (Number::Float):
\* n = <<integer part, first decimal digit>>
JFloat(ip, fr) == [kind |-> "float", s |-> <<>>, n |-> <<ip, fr>>, b |-> FALSE]

as_str(v) == IF v.kind = "string" THEN Some(v.s) ELSE None
as_bool(v) == IF v.kind = "bool" THEN Some(v.b) ELSE None
as_i64(v) == IF v.kind = "int" THEN Some(v.n) ELSE None

Limb == 65536
HalfLimb == 32768

\* `v as i32` on an i64: keeps the low 32 bits, read as two's complement
as_i32(limbs) ==
    IF limbs[3] >= HalfLimb
    THEN (limbs[3] - Limb) * Limb + limbs[4]
    ELSE limbs[3] * Limb + limbs[4]

\* HashMap::get
params_get(params, key) == IF key \in DOMAIN params THEN Some(params[key]) ELSE None

get_param_str_lossy(params, key) ==
    LET o == params_get(params, key)
    IN  IF IsNone(o) THEN None
        ELSE IF o[1].kind = "string" THEN Some(o[1].s)
        ELSE IF o[1].kind = "null" THEN None
        ELSE Some(<<o[1].kind>>)

get_param_str(params, key) ==
    LET o == params_get(params, key)
    IN  IF IsNone(o) THEN None ELSE as_str(o[1])

DefaultLimit == 10

get_param_i32_truncating(params, key, default) ==
    LET o == params_get(params, key)
    IN  IF IsNone(o) THEN default
        ELSE IF o[1].kind = "int" THEN as_i32(o[1].n)
        ELSE IF o[1].kind = "float" THEN o[1].n[1]
        ELSE default

get_param_i32(params, key, default) ==
    LET o == params_get(params, key)
        i == IF IsNone(o) THEN None ELSE as_i64(o[1])
    IN  IF IsSome(i) THEN as_i32(i[1]) ELSE default

\* the pooled flag read leniently: the string "true" counts as true
get_param_bool_truthy(params, key) ==
    LET o == params_get(params, key)
    IN  IF IsNone(o) THEN None
        ELSE IF o[1].kind = "string" THEN Some(o[1].s = <<"true">>)
        ELSE as_bool(o[1])

\* params.get(key).and_then(|v| v.as_bool())
get_param_bool(params, key) ==
    LET o == params_get(params, key)
    IN  IF IsNone(o) THEN None ELSE as_bool(o[1])

(***************************************************************************)
(* anyhow::Result<Value>                                                   *)
(***************************************************************************)
Ok(v) == [ok |-> TRUE, kind |-> "Ok", msg |-> <<>>, status |-> None,
          body |-> None, value |-> Some(v)]
Err(kind, msg, status, body) ==
    [ok |-> FALSE, kind |-> kind, msg |-> msg, status |-> status,
     body |-> body, value |-> None]

MissingParam(name) ==
    Err("BadRequest", <<"Missing required parameter: ", name>>, None, None)

\* a value handed back to the local client
Val(shape, body, count, flag) ==
    [shape |-> shape, body |-> body, count |-> count, flag |-> flag]

(***************************************************************************)
(* HTTP: requests, replies, bodies                                         *)
(***************************************************************************)
API_BASE == "https://console.neon.tech/api/v2"

NoHeader == <<>>
Headers(authorization, accept, content_type, neon_connection_string) ==
    [Authorization |-> authorization, Accept |-> accept,
     ContentType |-> content_type, NeonConnectionString |-> neon_connection_string]

\* url: the formatted URL; limit: the number formatted at the end of it, if any
Request(verb, url, limit, headers, body) ==
    [verb |-> verb, url |-> url, limit |-> limit, headers |-> headers, body |-> body]

\* a response body: t names the JSON document's shape
\*   "endpoints"  {"endpoints": [{id, host, branch_id}, ...]}
\*   "projects" | "branches" | "databases"   a list envelope with n items
\*   "project" | "branch"                    a one-record envelope
\*   "object"     any other JSON document (an {code, message} error, rows, ...)
\*   "garbage"    not JSON
Body(t, endpoints, n) == [t |-> t, endpoints |-> endpoints, n |-> n]

\* reqwest's send(): Err (transport = TRUE) or a response with status and body
Response(status, body) == [transport |-> FALSE, status |-> status, body |-> body]
TransportFailure == [transport |-> TRUE, status |-> 0, body |-> Body("garbage", <<>>, 0)]

\* StatusCode::is_success
is_success(status) == status >= 200 /\ status < 300

\* serde deserialization of a body into the type T ("Value" = serde_json::Value)
Decodes(T, body) ==
    IF T = "Value" THEN body.t # "garbage" ELSE body.t = T

(***************************************************************************)
(* NeonClient (src/api/client.rs)                                          *)
(***************************************************************************)
ControlHeaders_no_accept(key) ==
    Headers(<<"Bearer ">> \o key, NoHeader, NoHeader, NoHeader)

\* .header("Authorization", format!("Bearer {}", api_key)).header("Accept", ...)
ControlHeaders(key) ==
    Headers(<<"Bearer ">> \o key, <<"application/json">>, NoHeader, NoHeader)

\* NeonClient::get, up to send()
get_send(endpoint, limit, key) ==
    Request("GET", <<API_BASE>> \o endpoint, limit, ControlHeaders(key), None)

\* NeonClient::get, from the outcome of send()
get_recv(T, reply) ==
    IF reply.transport
    THEN Err("TransportError", <<"Failed to send request">>, None, None)
    ELSE IF ~is_success(reply.status)
    THEN Err("RemoteError", <<"API request failed: ">>, Some(reply.status), Some(reply.body))
    ELSE IF ~Decodes(T, reply.body)
    THEN Err("DecodeError", <<"Failed to parse response">>, None, None)
    ELSE Ok(reply.body)

ping_send(key, org) ==
    Request("GET", <<API_BASE, "/projects?org_id=">> \o org \o <<"&limit=">>, Some(1),
            ControlHeaders(key), None)

ping_recv_bails(reply) ==
    IF reply.transport
    THEN Err("TransportError", <<"Failed to ping Neon API">>, None, None)
    ELSE IF reply.status >= 200 /\ reply.status < 300 THEN Ok(TRUE)
    ELSE Err("RemoteError", <<"API request failed: ">>, Some(reply.status), Some(reply.body))

ping_recv(reply) ==
    IF reply.transport
    THEN Err("TransportError", <<"Failed to ping Neon API">>, None, None)
    ELSE Ok(is_success(reply.status))

list_projects_send(limit, key, org) ==
    get_send(<<"/projects?org_id=">> \o org \o <<"&limit=">>,
             Some(unwrap_or(limit, DefaultLimit)), key)

get_project_send(project_id, key) ==
    get_send(<<"/projects/">> \o project_id, None, key)

list_branches_send(project_id, key) ==
    get_send(<<"/projects/">> \o project_id \o <<"/branches">>, None, key)

list_databases_send(project_id, branch_id, key) ==
    get_send(<<"/projects/">> \o project_id \o <<"/branches/">> \o branch_id
             \o <<"/databases">>, None, key)

get_user_send(key) == get_send(<<"/users/me">>, None, key)

\* the fixed catalog query of get_tables
TablesQuery ==
    <<"SELECT schemaname as schema, tablename as name FROM pg_catalog.pg_tables WHERE schemaname NOT IN ('pg_catalog', 'information_schema') ORDER BY schemaname, tablename">>

\* the query of get_table_schema
SchemaQuery(table) ==
    <<"SELECT column_name, data_type, is_nullable::boolean, column_default FROM information_schema.columns WHERE table_name = '">>
    \o replace(table, "'", <<"'", "'">>)
    \o <<"' ORDER BY ordinal_position">>

\* run_sql, step 1: the endpoint-discovery GET
run_sql_send(project_id, key) ==
    Request("GET", <<API_BASE, "/projects/">> \o project_id \o <<"/endpoints">>, None,
            ControlHeaders(key), None)

RECURSIVE find_last(_, _)
find_last(endpoints, branch_id) ==
    IF endpoints = <<>> THEN None
    ELSE IF endpoints[Len(endpoints)].branch_id = branch_id
         THEN Some(endpoints[Len(endpoints)])
         ELSE find_last(SubSeq(endpoints, 1, Len(endpoints) - 1), branch_id)

find_ignoring_branch(endpoints, branch_id) ==
    IF endpoints = <<>> THEN None ELSE Some(Head(endpoints))

RECURSIVE find(_, _)
\* endpoints.iter().find(|e| e.branch_id == branch_id)
find(endpoints, branch_id) ==
    IF endpoints = <<>> THEN None
    ELSE IF Head(endpoints).branch_id = branch_id THEN Some(Head(endpoints))
    ELSE find(Tail(endpoints), branch_id)

\* run_sql, step 3: the data-plane POST to the chosen endpoint
sql_post(endpoint, database, query, key) ==
    Request("POST", <<"https://">> \o endpoint.host \o <<"/sql">>, None,
            Headers(NoHeader, NoHeader, <<"application/json">>,
                    <<"postgres://", "neondb_owner", ":">> \o key \o <<"@">> \o endpoint.host
                    \o <<"/">> \o database),
            Some([query |-> query, params |-> <<>>]))

\* run_sql that names the connection string in its NotFound error
run_sql_endpoints_recv_leaky(branch_id, database, query, key, reply) ==
    IF reply.transport
    THEN [done |-> TRUE, res |-> Err("TransportError", <<"error sending request">>, None, None),
          next |-> None]
    ELSE IF ~Decodes("endpoints", reply.body)
    THEN [done |-> TRUE, res |-> Err("DecodeError", <<"error decoding response body">>, None, None),
          next |-> None]
    ELSE LET endpoint == find(reply.body.endpoints, branch_id)
         IN  IF IsNone(endpoint)
             THEN [done |-> TRUE,
                   res |-> Err("NotFound",
                               <<"No endpoint found for branch ">> \o branch_id \o
                               <<" with postgres://", "neondb_owner", ":">> \o key,
                               None, None),
                   next |-> None]
             ELSE [done |-> FALSE, res |-> Ok(reply.body),
                   next |-> Some(sql_post(endpoint[1], database, query, key))]

\* run_sql, from the outcome of the GET: either an error or the POST to issue
run_sql_endpoints_recv(branch_id, database, query, key, reply) ==
    IF reply.transport
    THEN [done |-> TRUE, res |-> Err("TransportError", <<"error sending request">>, None, None),
          next |-> None]
    ELSE IF ~Decodes("endpoints", reply.body)
    THEN [done |-> TRUE, res |-> Err("DecodeError", <<"error decoding response body">>, None, None),
          next |-> None]
    ELSE LET endpoint == find(reply.body.endpoints, branch_id)
         IN  IF IsNone(endpoint)
             THEN [done |-> TRUE,
                   res |-> Err("NotFound", <<"No endpoint found for branch ">> \o branch_id,
                               None, None),
                   next |-> None]
             ELSE [done |-> FALSE, res |-> Ok(reply.body),
                   next |-> Some(sql_post(endpoint[1], database, query, key))]

\* run_sql, from the outcome of the POST
run_sql_sql_recv(reply) ==
    IF reply.transport
    THEN Err("TransportError", <<"Failed to execute SQL">>, None, None)
    ELSE IF ~is_success(reply.status)
    THEN Err("RemoteError", <<"SQL execution failed: ">>, Some(reply.status), Some(reply.body))
    ELSE IF ~Decodes("Value", reply.body)
    THEN Err("DecodeError", <<"Failed to parse SQL response">>, None, None)
    ELSE Ok(reply.body)

\* control-plane mutations the service calls (one authenticated request each)
create_branch_send(project_id, name, parent_id, key) ==
    Request("POST", <<API_BASE, "/projects/">> \o project_id \o <<"/branches">>, None,
            ControlHeaders(key), Some([name |-> name, parent_id |-> parent_id]))

delete_branch_send(project_id, branch_id, key) ==
    Request("DELETE", <<API_BASE, "/projects/">> \o project_id \o <<"/branches/">> \o branch_id,
            None, ControlHeaders(key), None)

get_connection_string_send(project_id, branch_id, database, pooled, key) ==
    Request("GET", <<API_BASE, "/projects/">> \o project_id \o <<"/connection_uri">>, None,
            ControlHeaders(key),
            Some([branch_id |-> branch_id, database |-> database, pooled |-> pooled]))

\* delete_branch returns (): only the status is looked at
delete_branch_recv(reply) ==
    IF reply.transport
    THEN Err("TransportError", <<"Failed to send request">>, None, None)
    ELSE IF ~is_success(reply.status)
    THEN Err("RemoteError", <<"API request failed: ">>, Some(reply.status), Some(reply.body))
    ELSE Ok(reply.body)

(***************************************************************************)
(* NeonService handlers (src/service.rs): parameter extraction.            *)
(* A handler either fails before any remote call or reaches one adapter    *)
(* operation with typed arguments.                                         *)
(***************************************************************************)
Fail(res) == [fail |-> Some(res), call |-> None]
Call(op, args) == [fail |-> None, call |-> Some([op |-> op, args |-> args])]

NeonService_health == Call("ping", [unit |-> TRUE])

NeonService_list_projects(params) ==
    LET limit == get_param_i32(params, "limit", DefaultLimit)
    IN  Call("list_projects", [limit |-> Some(limit)])

NeonService_get_project(params) ==
    LET project_id == get_param_str(params, "project_id")
    IN  IF IsNone(project_id) THEN Fail(MissingParam("project_id"))
        ELSE Call("get_project", [project_id |-> project_id[1]])

NeonService_list_branches(params) ==
    LET project_id == get_param_str(params, "project_id")
    IN  IF IsNone(project_id) THEN Fail(MissingParam("project_id"))
        ELSE Call("list_branches", [project_id |-> project_id[1]])

NeonService_list_databases(params) ==
    LET project_id == get_param_str(params, "project_id")
        branch_id == get_param_str(params, "branch_id")
    IN  IF IsNone(project_id) THEN Fail(MissingParam("project_id"))
        ELSE IF IsNone(branch_id) THEN Fail(MissingParam("branch_id"))
        ELSE Call("list_databases",
                  [project_id |-> project_id[1], branch_id |-> branch_id[1]])

NeonService_get_tables(params) ==
    LET project_id == get_param_str(params, "project_id")
        branch_id == get_param_str(params, "branch_id")
        database == unwrap_or(get_param_str(params, "database"), <<"neondb">>)
    IN  IF IsNone(project_id) THEN Fail(MissingParam("project_id"))
        ELSE IF IsNone(branch_id) THEN Fail(MissingParam("branch_id"))
        ELSE Call("get_tables",
                  [project_id |-> project_id[1], branch_id |-> branch_id[1],
                   database |-> database])

NeonService_get_table_schema(params) ==
    LET project_id == get_param_str(params, "project_id")
        branch_id == get_param_str(params, "branch_id")
        database == unwrap_or(get_param_str(params, "database"), <<"neondb">>)
        table == get_param_str(params, "table")
    IN  IF IsNone(project_id) THEN Fail(MissingParam("project_id"))
        ELSE IF IsNone(branch_id) THEN Fail(MissingParam("branch_id"))
        ELSE IF IsNone(table) THEN Fail(MissingParam("table"))
        ELSE Call("get_table_schema",
                  [project_id |-> project_id[1], branch_id |-> branch_id[1],
                   database |-> database, table |-> table[1]])

NeonService_run_sql(params) ==
    LET project_id == get_param_str(params, "project_id")
        branch_id == get_param_str(params, "branch_id")
        database == unwrap_or(get_param_str(params, "database"), <<"neondb">>)
        query == get_param_str(params, "query")
    IN  IF IsNone(project_id) THEN Fail(MissingParam("project_id"))
        ELSE IF IsNone(branch_id) THEN Fail(MissingParam("branch_id"))
        ELSE IF IsNone(query) THEN Fail(MissingParam("query"))
        ELSE Call("run_sql",
                  [project_id |-> project_id[1], branch_id |-> branch_id[1],
                   database |-> database, query |-> query[1]])

NeonService_get_user == Call("get_user", [unit |-> TRUE])

NeonService_create_branch(params) ==
    LET project_id == get_param_str(params, "project_id")
        name == get_param_str(params, "name")
        parent_id == get_param_str(params, "parent_id")
    IN  IF IsNone(project_id) THEN Fail(MissingParam("project_id"))
        ELSE Call("create_branch",
                  [project_id |-> project_id[1], name |-> name, parent_id |-> parent_id])

NeonService_delete_branch(params) ==
    LET project_id == get_param_str(params, "project_id")
        branch_id == get_param_str(params, "branch_id")
    IN  IF IsNone(project_id) THEN Fail(MissingParam("project_id"))
        ELSE IF IsNone(branch_id) THEN Fail(MissingParam("branch_id"))
        ELSE Call("delete_branch",
                  [project_id |-> project_id[1], branch_id |-> branch_id[1]])

NeonService_get_connection_string(params) ==
    LET project_id == get_param_str(params, "project_id")
        branch_id == get_param_str(params, "branch_id")
        database == get_param_str(params, "database")
        pooled == unwrap_or(get_param_bool(params, "pooled"), FALSE)
    IN  IF IsNone(project_id) THEN Fail(MissingParam("project_id"))
        ELSE Call("get_connection_string",
                  [project_id |-> project_id[1], branch_id |-> branch_id,
                   database |-> database, pooled |-> pooled])

UnknownMethod(method) ==
    Fail(Err("UnknownMethod", <<"Unknown method: ", method>>, None, None))

dispatch_alias_slip(method, params) ==
    CASE method = "health" -> NeonService_health
      [] method \in {"projects", "neon.projects", "project"} -> NeonService_list_projects(params)
      [] method \in {"neon.project"} -> NeonService_get_project(params)
      [] method \in {"branches", "neon.branches"} -> NeonService_list_branches(params)
      [] method \in {"databases", "neon.databases"} -> NeonService_list_databases(params)
      [] method \in {"tables", "neon.tables"} -> NeonService_get_tables(params)
      [] method \in {"schema", "neon.schema"} -> NeonService_get_table_schema(params)
      [] method \in {"sql", "neon.sql"} -> NeonService_run_sql(params)
      [] method \in {"user", "neon.user"} -> NeonService_get_user
      [] method \in {"create_branch", "neon.create_branch"} -> NeonService_create_branch(params)
      [] method \in {"delete_branch", "neon.delete_branch"} -> NeonService_delete_branch(params)
      [] method \in {"connection_string", "neon.connection_string"} ->
            NeonService_get_connection_string(params)
      [] OTHER -> UnknownMethod(method)

dispatch_lenient(method, params) ==
    CASE method \in {"health", "neon.health"} -> NeonService_health
      [] method \in {"projects", "neon.projects"} -> NeonService_list_projects(params)
      [] method \in {"project", "neon.project"} -> NeonService_get_project(params)
      [] method \in {"branches", "neon.branches"} -> NeonService_list_branches(params)
      [] method \in {"databases", "neon.databases"} -> NeonService_list_databases(params)
      [] method \in {"tables", "neon.tables"} -> NeonService_get_tables(params)
      [] method \in {"schema", "neon.schema"} -> NeonService_get_table_schema(params)
      [] method \in {"sql", "neon.sql"} -> NeonService_run_sql(params)
      [] method \in {"user", "neon.user"} -> NeonService_get_user
      [] method \in {"create_branch", "neon.create_branch"} -> NeonService_create_branch(params)
      [] method \in {"delete_branch", "neon.delete_branch"} -> NeonService_delete_branch(params)
      [] method \in {"connection_string", "neon.connection_string"} ->
            NeonService_get_connection_string(params)
      [] OTHER -> UnknownMethod(method)

\* NeonService::dispatch: the method table
dispatch(method, params) ==
    CASE method = "health" -> NeonService_health
      [] method \in {"projects", "neon.projects"} -> NeonService_list_projects(params)
      [] method \in {"project", "neon.project"} -> NeonService_get_project(params)
      [] method \in {"branches", "neon.branches"} -> NeonService_list_branches(params)
      [] method \in {"databases", "neon.databases"} -> NeonService_list_databases(params)
      [] method \in {"tables", "neon.tables"} -> NeonService_get_tables(params)
      [] method \in {"schema", "neon.schema"} -> NeonService_get_table_schema(params)
      [] method \in {"sql", "neon.sql"} -> NeonService_run_sql(params)
      [] method \in {"user", "neon.user"} -> NeonService_get_user
      [] method \in {"create_branch", "neon.create_branch"} -> NeonService_create_branch(params)
      [] method \in {"delete_branch", "neon.delete_branch"} -> NeonService_delete_branch(params)
      [] method \in {"connection_string", "neon.connection_string"} ->
            NeonService_get_connection_string(params)
      [] OTHER -> UnknownMethod(method)

(***************************************************************************)
(* NeonService::on_start and NeonService::health_check                     *)
(***************************************************************************)
Unit == Val("unit", None, None, TRUE)   \* the () of Ok(())

\* anyhow's Display: the outermost context of the error
to_string(e) == e.msg

\* on_start with the mistake of failing on an unsuccessful response
on_start_strict(ping) ==
    CASE ping.ok /\ ping.value[1] -> [res |-> Ok(Unit), log |-> "info"]
      [] ping.ok /\ ~ping.value[1] ->
            [res |-> Err("RemoteError", <<"Neon API returned unsuccessful response">>,
                         None, None),
             log |-> "error"]
      [] OTHER -> [res |-> ping, log |-> "error"]

\* on_start, given what client.ping() returned: its result and the level it logs at
on_start(ping) ==
    CASE ping.ok /\ ping.value[1] -> [res |-> Ok(Unit), log |-> "info"]
      [] ping.ok /\ ~ping.value[1] -> [res |-> Ok(Unit), log |-> "warn"]
      [] OTHER -> [res |-> ping, log |-> "error"]

healthy_with_latency(latency) ==
    [ok |-> TRUE, latency_ms |-> Some(latency), message |-> None]
unhealthy(message) ==
    [ok |-> FALSE, latency_ms |-> None, message |-> Some(message)]

\* health_check, given what client.ping() returned and the time it took
health_check(ping, latency) ==
    [neon_api |->
        CASE ping.ok /\ ping.value[1] -> healthy_with_latency(latency)
          [] ping.ok /\ ~ping.value[1] -> unhealthy(<<"API returned error">>)
          [] OTHER -> unhealthy(to_string(ping))]

(***************************************************************************)
(* The adapter operation as a sequence of remote calls                     *)
(***************************************************************************)
SqlOps == {"get_tables", "get_table_schema", "run_sql"}

\* the query run_sql is called with by get_tables / get_table_schema / run_sql
QueryOf(call) ==
    CASE call.op = "get_tables" -> TablesQuery
      [] call.op = "get_table_schema" -> SchemaQuery(call.args.table)
      [] call.op = "run_sql" -> call.args.query

\* the first HTTP request of an adapter operation
FirstRequest(call, key, org) ==
    CASE call.op = "ping" -> ping_send(key, org)
      [] call.op = "list_projects" -> list_projects_send(call.args.limit, key, org)
      [] call.op = "get_project" -> get_project_send(call.args.project_id, key)
      [] call.op = "list_branches" -> list_branches_send(call.args.project_id, key)
      [] call.op = "list_databases" ->
            list_databases_send(call.args.project_id, call.args.branch_id, key)
      [] call.op \in SqlOps -> run_sql_send(call.args.project_id, key)
      [] call.op = "get_user" -> get_user_send(key)
      [] call.op = "create_branch" ->
            create_branch_send(call.args.project_id, call.args.name, call.args.parent_id, key)
      [] call.op = "delete_branch" ->
            delete_branch_send(call.args.project_id, call.args.branch_id, key)
      [] call.op = "get_connection_string" ->
            get_connection_string_send(call.args.project_id, call.args.branch_id,
                                       call.args.database, call.args.pooled, key)

Finished(res) == [done |-> TRUE, res |-> res, next |-> None]

\* what the adapter operation does with the reply to its stage-th request
OnReply(call, stage, reply, key) ==
    CASE call.op = "ping" -> Finished(ping_recv(reply))
      [] call.op = "list_projects" -> Finished(get_recv("projects", reply))
      [] call.op = "get_project" -> Finished(get_recv("project", reply))
      [] call.op = "list_branches" -> Finished(get_recv("branches", reply))
      [] call.op = "list_databases" -> Finished(get_recv("databases", reply))
      [] call.op = "get_user" -> Finished(get_recv("Value", reply))
      [] call.op \in SqlOps ->
            IF stage = 1
            THEN run_sql_endpoints_recv(call.args.branch_id, call.args.database,
                                        QueryOf(call), key, reply)
            ELSE Finished(run_sql_sql_recv(reply))
      [] call.op = "create_branch" -> Finished(get_recv("branch", reply))
      [] call.op = "delete_branch" -> Finished(delete_branch_recv(reply))
      [] call.op = "get_connection_string" -> Finished(get_recv("Value", reply))

\* the JSON value the service handler builds from the adapter's Ok value
Wrap(op, v) ==
    CASE op = "ping" -> Val("health", None, None, v)
      [] op \in {"list_projects", "list_branches", "list_databases"} ->
            Val("list+count", Some(v), Some(v.n), FALSE)
      [] op \in {"get_project", "create_branch"} -> Val("record", Some(v), None, FALSE)
      [] op = "delete_branch" -> Val("deleted", None, None, TRUE)
      [] OTHER -> Val("raw", Some(v), None, FALSE)

\* dispatch() up to its first suspension
Start(method, params, key, org) ==
    LET plan == dispatch(method, params)
    IN  IF IsSome(plan.fail)
        THEN [pc |-> "done", invoked |-> None, calls |-> <<>>, result |-> plan.fail]
        ELSE [pc |-> "wait", invoked |-> plan.call,
              calls |-> <<FirstRequest(plan.call[1], key, org)>>, result |-> None]

\* dispatch() from one remote reply to the next suspension or to its return
Step(st, reply, key) ==
    LET call == st.invoked[1]
        r == OnReply(call, Len(st.calls), reply, key)
    IN  IF r.done
        THEN [pc |-> "done", invoked |-> st.invoked, calls |-> st.calls,
              result |-> Some(IF r.res.ok THEN Ok(Wrap(call.op, r.res.value[1])) ELSE r.res)]
        ELSE [pc |-> "wait", invoked |-> st.invoked,
              calls |-> Append(st.calls, r.next[1]), result |-> None]

(***************************************************************************)
(* Inputs: method names, parameter bags, remote replies                    *)
(***************************************************************************)
Canonical ==
    {"health", "neon.projects", "neon.project", "neon.branches", "neon.databases",
     "neon.tables", "neon.schema", "neon.sql", "neon.user", "neon.create_branch",
     "neon.delete_branch", "neon.connection_string"}

ShortNames ==
    {"projects", "project", "branches", "databases", "tables", "schema", "sql", "user",
     "create_branch", "delete_branch", "connection_string"}

UnknownNames == {"unknown", "neon.health", "neon.Projects", ""}

MethodNames == Canonical \cup ShortNames \cup UnknownNames

\* 64-bit integers as limbs
I64_3 == <<0, 0, 0, 3>>
I64_7 == <<0, 0, 0, 7>>
I64_2p31 == <<0, 0, 32768, 0>>                  \* 2^31
I64_2p32_3 == <<0, 1, 0, 3>>                    \* 2^32 + 3
I64_m1 == <<65535, 65535, 65535, 65535>>        \* -1
I64_m2p31_1 == <<65535, 65535, 32767, 65535>>   \* -2^31 - 1
U64_2p63 == <<32768, 0, 0, 0>>                  \* 2^63, above i64::MAX

ValuesFor(key) ==
    CASE key = "project_id" -> {JString(<<"p">>), JInt(I64_7)}
      [] key = "branch_id" -> {JString(<<"br_x">>), JString(<<"br_y">>), JNull}
      [] key = "database" -> {JString(<<"d">>), JBool(TRUE)}
      [] key = "table" -> {JString(<<"O", "'", "Brien">>), JInt(I64_7)}
      [] key = "query" -> {JString(<<"select 1">>), JNull}
      [] key = "name" -> {JString(<<"dev">>), JInt(I64_7)}
      [] key = "parent_id" -> {JString(<<"br_x">>), JBool(FALSE)}
      [] key = "limit" -> {JInt(I64_3), JInt(I64_2p31), JInt(I64_2p32_3), JInt(I64_m1),
                           JInt(I64_m2p31_1), JBigUint(U64_2p63), JFloat(3, 7),
                           JFloat(3, 0), JString(<<"5">>)}
      [] key = "pooled" -> {JBool(TRUE), JBool(FALSE), JString(<<"true">>)}
      [] OTHER -> {JNull}

\* the parameter names a request for the method may carry
KeysFor(method) ==
    CASE method \in {"projects", "neon.projects"} -> {"limit"}
      [] method \in {"project", "neon.project"} -> {"project_id", "extra"}
      [] method \in {"branches", "neon.branches"} -> {"project_id"}
      [] method \in {"databases", "neon.databases", "delete_branch", "neon.delete_branch"} ->
            {"project_id", "branch_id"}
      [] method \in {"tables", "neon.tables"} -> {"project_id", "branch_id", "database"}
      [] method \in {"schema", "neon.schema"} ->
            {"project_id", "branch_id", "database", "table"}
      [] method \in {"sql", "neon.sql"} -> {"project_id", "branch_id", "database", "query"}
      [] method \in {"create_branch", "neon.create_branch"} ->
            {"project_id", "name", "parent_id"}
      [] method \in {"connection_string", "neon.connection_string"} ->
            {"project_id", "branch_id", "database", "pooled"}
      [] method \in {"unknown", "neon.health"} -> {"project_id", "limit"}
      [] OTHER -> {}

RECURSIVE BagsOver(_)
\* every HashMap<String, Value> whose keys are among `keys`
BagsOver(keys) ==
    IF keys = {} THEN {<<>>}
    ELSE LET k == CHOOSE x \in keys : TRUE
             rest == BagsOver(keys \ {k})
         IN  rest \cup {(k :> v) @@ b : v \in ValuesFor(k), b \in rest}

Hosts == {<<"h1">>, <<"h2">>}
Branches == {<<"br_x">>, <<"br_y">>}
Endpoints ==
    {[id |-> <<"e">> \o h, host |-> h, branch_id |-> b] : h \in Hosts, b \in Branches}

RECURSIVE SeqsUpTo(_, _)
SeqsUpTo(S, n) ==
    IF n = 0 THEN {<<>>}
    ELSE LET shorter == SeqsUpTo(S, n - 1)
         IN  shorter \cup {Append(q, x) : q \in {r \in shorter : Len(r) = n - 1}, x \in S}

EndpointBodies == {Body("endpoints", l, Len(l)) : l \in SeqsUpTo(Endpoints, MaxEndpoints)}

ObjectBody == Body("object", <<>>, 0)
GarbageBody == Body("garbage", <<>>, 0)

\* the bodies the remote may answer a request of the operation with
BodiesFor(op, stage) ==
    {ObjectBody, GarbageBody} \cup
    CASE op \in SqlOps /\ stage = 1 -> EndpointBodies
      [] op \in SqlOps /\ stage = 2 -> {Body("endpoints", <<>>, 0)}
      [] op = "list_projects" -> {Body("projects", <<>>, n) : n \in 0..MaxItems}
      [] op = "list_branches" -> {Body("branches", <<>>, n) : n \in 0..MaxItems}
      [] op = "list_databases" -> {Body("databases", <<>>, n) : n \in 0..MaxItems}
      [] op = "get_project" -> {Body("project", <<>>, 1), Body("projects", <<>>, 1)}
      [] op = "create_branch" -> {Body("branch", <<>>, 1)}
      [] OTHER -> {}

Statuses == {200, 299, 300, 404}

RepliesFor(op, stage) ==
    {TransportFailure} \cup {Response(s, b) : s \in Statuses, b \in BodiesFor(op, stage)}

ApiKeys == {<<"key_A">>, <<"key_B">>}
OrgIds == {<<"org-1">>}

(***************************************************************************)
(* The state machine: one request at a time through dispatch               *)
(***************************************************************************)
MaxLatency == 2     \* longest ping the health check measures, in milliseconds

\* no lifecycle command is running and no worker holds a request
NoCommand ==
    [cmd |-> "none", foreground |-> FALSE, socket_path |-> <<>>, pc |-> "idle",
     exit |-> None, api_key |-> None, org_id |-> None, pid |-> None, service |-> None]
NoEnviron == [NEON_API_KEY |-> None, credentials |-> None, NEON_ORG_ID |-> None, procs |-> <<>>]
NoFiles == [socket |-> FALSE, pid_file |-> None]
NoSlots == <<>>

Init ==
    /\ api_key \in ApiKeys
    /\ org_id \in OrgIds
    /\ pc = "idle"
    /\ req = [method |-> "", params |-> <<>>]
    /\ invoked = None
    /\ calls = <<>>
    /\ replies = <<>>
    /\ result = None
    /\ entry = "none"
    /\ logs = <<>>
    /\ environ = NoEnviron
    /\ files = NoFiles
    /\ cli = NoCommand
    /\ events = <<>>
    /\ slots = NoSlots

\* the framework calls dispatch(method, params); it runs to its first remote call
Dispatch(method, params) ==
    /\ pc = "idle"
    /\ LET st == Start(method, params, api_key, org_id)
       IN  /\ pc' = st.pc
           /\ invoked' = st.invoked
           /\ calls' = st.calls
           /\ result' = st.result
    /\ req' = [method |-> method, params |-> params]
    /\ replies' = <<>>
    /\ entry' = "dispatch"
    /\ logs' = <<>>
    /\ UNCHANGED <<api_key, org_id, cliVars, slots>>

\* the remote answers the outstanding request; dispatch runs on
Reply(reply) ==
    /\ pc = "wait"
    /\ entry = "dispatch"
    /\ LET st == Step([pc |-> pc, invoked |-> invoked, calls |-> calls, result |-> result],
                      reply, api_key)
       IN  /\ pc' = st.pc
           /\ invoked' = st.invoked
           /\ calls' = st.calls
           /\ result' = st.result
    /\ replies' = Append(replies, reply)
    /\ UNCHANGED <<api_key, org_id, req, entry, logs, cliVars, slots>>

\* the framework calls on_start(); it logs and runs to its ping
OnStart ==
    /\ pc = "idle"
    /\ pc' = "wait"
    /\ entry' = "on_start"
    /\ logs' = <<"info">>
    /\ invoked' = NeonService_health.call
    /\ calls' = <<ping_send(api_key, org_id)>>
    /\ replies' = <<>>
    /\ result' = None
    /\ UNCHANGED <<api_key, org_id, req, cliVars, slots>>

\* the remote answers the startup ping; on_start returns
OnStartReply(reply) ==
    /\ pc = "wait"
    /\ entry = "on_start"
    /\ LET r == on_start(ping_recv(reply))
       IN  /\ result' = Some(r.res)
           /\ logs' = Append(logs, r.log)
    /\ pc' = "done"
    /\ replies' = Append(replies, reply)
    /\ UNCHANGED <<api_key, org_id, req, invoked, calls, entry, cliVars, slots>>

\* the framework calls health_check(); it runs to its ping
HealthCheck ==
    /\ pc = "idle"
    /\ pc' = "wait"
    /\ entry' = "health_check"
    /\ logs' = <<>>
    /\ invoked' = NeonService_health.call
    /\ calls' = <<ping_send(api_key, org_id)>>
    /\ replies' = <<>>
    /\ result' = None
    /\ UNCHANGED <<api_key, org_id, req, cliVars, slots>>

\* the remote answers the health ping after latency milliseconds
HealthCheckReply(reply, latency) ==
    /\ pc = "wait"
    /\ entry = "health_check"
    /\ result' = Some(health_check(ping_recv(reply), latency))
    /\ pc' = "done"
    /\ replies' = Append(replies, reply)
    /\ UNCHANGED <<api_key, org_id, req, invoked, calls, entry, logs, cliVars, slots>>

\* the framework takes the result and waits for the next request
Return ==
    /\ pc = "done"
    /\ pc' = "idle"
    /\ req' = [method |-> "", params |-> <<>>]
    /\ invoked' = None
    /\ calls' = <<>>
    /\ replies' = <<>>
    /\ result' = None
    /\ entry' = "none"
    /\ logs' = <<>>
    /\ UNCHANGED <<api_key, org_id, cliVars, slots>>

Next ==
    \/ Return
    \/ \E method \in MethodNames : \E params \in BagsOver(KeysFor(method)) :
          Dispatch(method, params)
    \/ /\ pc = "wait"
       /\ entry = "dispatch"
       /\ \E reply \in RepliesFor(invoked[1].op, Len(calls)) : Reply(reply)
    \/ OnStart
    \/ \E reply \in RepliesFor("ping", 1) : OnStartReply(reply)
    \/ HealthCheck
    \/ \E reply \in RepliesFor("ping", 1) : \E latency \in 0..MaxLatency :
          HealthCheckReply(reply, latency)

Spec == Init /\ [][Next]_vars

(***************************************************************************)
(* NeonService::method_list: the published method list                     *)
(***************************************************************************)
ParamInfo(name, param_type, required, default) ==
    [name |-> name, param_type |-> param_type, required |-> required, default |-> default]
MethodInfo(name, params) == [name |-> name, params |-> params]

I64_10 == <<0, 0, 0, 10>>

method_list ==
    << MethodInfo("neon.projects",
           << ParamInfo("limit", "integer", FALSE, Some(JInt(I64_10))) >>),
       MethodInfo("neon.project",
           << ParamInfo("project_id", "string", TRUE, None) >>),
       MethodInfo("neon.branches",
           << ParamInfo("project_id", "string", TRUE, None) >>),
       MethodInfo("neon.databases",
           << ParamInfo("project_id", "string", TRUE, None),
              ParamInfo("branch_id", "string", TRUE, None) >>),
       MethodInfo("neon.tables",
           << ParamInfo("project_id", "string", TRUE, None),
              ParamInfo("branch_id", "string", TRUE, None),
              ParamInfo("database", "string", FALSE, Some(JString(<<"neondb">>))) >>),
       MethodInfo("neon.schema",
           << ParamInfo("project_id", "string", TRUE, None),
              ParamInfo("branch_id", "string", TRUE, None),
              ParamInfo("database", "string", FALSE, Some(JString(<<"neondb">>))),
              ParamInfo("table", "string", TRUE, None) >>),
       MethodInfo("neon.sql",
           << ParamInfo("project_id", "string", TRUE, None),
              ParamInfo("branch_id", "string", TRUE, None),
              ParamInfo("database", "string", FALSE, Some(JString(<<"neondb">>))),
              ParamInfo("query", "string", TRUE, None) >>),
       MethodInfo("neon.user", << >>),
       MethodInfo("neon.create_branch",
           << ParamInfo("project_id", "string", TRUE, None),
              ParamInfo("name", "string", FALSE, None),
              ParamInfo("parent_id", "string", FALSE, None) >>),
       MethodInfo("neon.delete_branch",
           << ParamInfo("project_id", "string", TRUE, None),
              ParamInfo("branch_id", "string", TRUE, None) >>),
       MethodInfo("neon.connection_string",
           << ParamInfo("project_id", "string", TRUE, None),
              ParamInfo("branch_id", "string", FALSE, None),
              ParamInfo("database", "string", FALSE, Some(JString(<<"neondb">>))),
              ParamInfo("pooled", "boolean", FALSE, Some(JBool(FALSE))) >> ) >>

(***************************************************************************)
(* Vocabulary of the properties                                            *)
(***************************************************************************)
Published == {method_list[i].name : i \in 1..Len(method_list)}

\* the canonical name a short alias stands for (method table of the design)
AliasOf ==
    [projects |-> "neon.projects", project |-> "neon.project", branches |-> "neon.branches",
     databases |-> "neon.databases", tables |-> "neon.tables", schema |-> "neon.schema",
     sql |-> "neon.sql", user |-> "neon.user", create_branch |-> "neon.create_branch",
     delete_branch |-> "neon.delete_branch", connection_string |-> "neon.connection_string"]

CanonicalOf(method) == IF method \in DOMAIN AliasOf THEN AliasOf[method] ELSE method

\* the published parameter descriptions of a method (none for health)
ParamsOf(method) ==
    IF method \in Published
    THEN LET i == CHOOSE j \in 1..Len(method_list) : method_list[j].name = method
         IN  {method_list[i].params[k] : k \in 1..Len(method_list[i].params)}
    ELSE {}

RequiredOf(method) == {p.name : p \in {q \in ParamsOf(method) : q.required}}

Dispatched == pc # "idle" /\ entry = "dispatch"
Returned == pc = "done"
Res == result[1]

SqlMethods == {"neon.sql", "neon.tables", "neon.schema", "sql", "tables", "schema"}

IsSqlPost(r) == r.verb = "POST" /\ r.url[Len(r.url)] = "/sql"

\* the endpoint list the discovery GET was answered with, when it decoded
GotEndpointList ==
    /\ Dispatched
    /\ req.method \in SqlMethods
    /\ Len(replies) >= 1
    /\ ~replies[1].transport
    /\ replies[1].body.t = "endpoints"

RequestedBranch == req.params["branch_id"].s
Matching == {i \in 1..Len(replies[1].body.endpoints) :
                replies[1].body.endpoints[i].branch_id = RequestedBranch}

(***************************************************************************)
(* Properties                                                              *)
(***************************************************************************)
\* C1: when the /endpoints response holds no endpoint whose branch_id is the
\* requested branch, run_sql (neon.sql, neon.tables, neon.schema) fails with
\* NotFound and no POST to a /sql URL is issued.
C1_NoEndpointIsNotFound ==
    (GotEndpointList /\ Matching = {}) =>
        /\ Returned
        /\ ~Res.ok
        /\ Res.kind = "NotFound"
        /\ \A i \in 1..Len(calls) : ~IsSqlPost(calls[i])

C1_Witness ==
    /\ GotEndpointList
    /\ Matching = {}
    /\ Len(replies[1].body.endpoints) >= 1
    /\ Returned
    /\ Res.kind = "NotFound"

\* C2: when the endpoint list returned by the discovery GET holds at least one
\* endpoint of the requested branch, exactly one POST is issued, after the GET,
\* to https://<host>/sql of the first matching endpoint in returned order, with
\* body {query, params: []}.
C2_PostToFirstMatch ==
    (GotEndpointList /\ Matching # {}) =>
        LET first == CHOOSE i \in Matching : \A j \in Matching : i <= j
            host == replies[1].body.endpoints[first].host
        IN  /\ Len(calls) = 2
            /\ calls[1].verb = "GET"
            /\ calls[1].url = <<API_BASE, "/projects/">> \o req.params["project_id"].s
                              \o <<"/endpoints">>
            /\ calls[2].verb = "POST"
            /\ calls[2].url = <<"https://">> \o host \o <<"/sql">>
            /\ IsSome(calls[2].body)
            /\ calls[2].body[1].params = <<>>
            /\ req.method \in {"sql", "neon.sql"} =>
                   calls[2].body[1].query = req.params["query"].s

C2_Witness ==
    /\ GotEndpointList
    /\ Cardinality(Matching) = 2
    /\ replies[1].body.endpoints[1].host # replies[1].body.endpoints[2].host
    /\ Len(calls) = 2
    /\ calls[2].url = <<"https://">> \o replies[1].body.endpoints[1].host \o <<"/sql">>

\* C3: for every adapter operation other than ping and every remote call it
\* makes, a response whose status is not 2xx makes the operation fail with
\* RemoteError carrying that status and body, and no later remote call is made.
C3_Non2xxIsRemoteError ==
    \A i \in 1..Len(replies) :
        (/\ invoked[1].op # "ping"
         /\ ~replies[i].transport
         /\ (replies[i].status < 200 \/ replies[i].status >= 300)) =>
            /\ Returned
            /\ Len(calls) = i
            /\ ~Res.ok
            /\ Res.kind = "RemoteError"
            /\ Res.status = Some(replies[i].status)
            /\ Res.body = Some(replies[i].body)

\* the adapter operation the method table assigns to a published method
AdapterOpOf ==
    [m \in Published |->
        CASE m = "neon.projects" -> "list_projects"
          [] m = "neon.project" -> "get_project"
          [] m = "neon.branches" -> "list_branches"
          [] m = "neon.databases" -> "list_databases"
          [] m = "neon.tables" -> "get_tables"
          [] m = "neon.schema" -> "get_table_schema"
          [] m = "neon.sql" -> "run_sql"
          [] m = "neon.user" -> "get_user"
          [] m = "neon.create_branch" -> "create_branch"
          [] m = "neon.delete_branch" -> "delete_branch"
          [] m = "neon.connection_string" -> "get_connection_string"]

\* a JSON value is of the declared type (an integer must fit 32 bits)
KindOk(param_type, v) ==
    CASE param_type = "string" -> v.kind = "string"
      [] param_type = "boolean" -> v.kind = "bool"
      [] param_type = "integer" ->
            /\ v.kind = "int"
            /\ \/ v.n[1] = 0 /\ v.n[2] = 0 /\ v.n[3] < HalfLimb
               \/ v.n[1] = Limb - 1 /\ v.n[2] = Limb - 1 /\ v.n[3] >= HalfLimb

ValidBag(method, bag) ==
    \A p \in ParamsOf(method) :
        /\ p.required => p.name \in DOMAIN bag
        /\ p.name \in DOMAIN bag => KindOk(p.param_type, bag[p.name])

\* the typed value of a JSON value of the right kind
Typed(v) ==
    CASE v.kind = "string" -> v.s
      [] v.kind = "bool" -> v.b
      [] v.kind = "int" -> IF v.n[3] >= HalfLimb THEN (v.n[3] - Limb) * Limb + v.n[4]
                           ELSE v.n[3] * Limb + v.n[4]

\* the arguments the adapter takes as Option
OptionalArgs(op) ==
    CASE op = "list_projects" -> {"limit"}
      [] op = "create_branch" -> {"name", "parent_id"}
      [] op = "get_connection_string" -> {"branch_id", "database"}
      [] OTHER -> {}

\* the value an adapter operation was called with for a parameter, if any
Passed(call, name) ==
    IF name \in OptionalArgs(call.op) THEN call.args[name] ELSE Some(call.args[name])

\* the value the published list promises for a parameter
Declared(p, bag) ==
    IF p.name \in DOMAIN bag THEN Some(Typed(bag[p.name]))
    ELSE IF IsSome(p.default) THEN Some(Typed(p.default[1]))
    ELSE None

\* C4: for every published method and every valid parameter bag, dispatch
\* reaches the method's adapter operation with every parameter as declared:
\* a supplied value unchanged, an omitted optional one as its declared default.
C4_ParametersAsDeclared ==
    (Dispatched /\ req.method \in Published /\ ValidBag(req.method, req.params)) =>
        /\ IsSome(invoked)
        /\ invoked[1].op = AdapterOpOf[req.method]
        /\ \A p \in ParamsOf(req.method) :
              Passed(invoked[1], p.name) = Declared(p, req.params)

\* the required parameters of the request's method that are missing or not strings
BadRequired ==
    {name \in RequiredOf(CanonicalOf(req.method)) :
        name \notin DOMAIN req.params \/ req.params[name].kind # "string"}

\* C5: dispatching a method with a required parameter missing or not a JSON
\* string fails with BadRequest "Missing required parameter: <P>", P being
\* such a parameter, and no HTTP call is made.
C5_MissingRequiredIsBadRequest ==
    (Dispatched /\ BadRequired # {}) =>
        /\ Returned
        /\ ~Res.ok
        /\ Res.kind = "BadRequest"
        /\ \E name \in BadRequired : Res.msg = <<"Missing required parameter: ", name>>
        /\ Cardinality(BadRequired) = 1 =>
              \A name \in BadRequired : Res.msg = <<"Missing required parameter: ", name>>
        /\ calls = <<>>
        /\ replies = <<>>

C5_Witness ==
    /\ Returned
    /\ req.method = "neon.databases"
    /\ BadRequired = {"branch_id"}
    /\ "branch_id" \in DOMAIN req.params
    /\ Res.msg = <<"Missing required parameter: ", "branch_id">>
    /\ calls = <<>>

\* C6: a method name that is neither canonical nor an alias fails with
\* UnknownMethod whatever the parameters, and no remote call is made.
C6_UnknownMethod ==
    (Dispatched /\ req.method \notin (Canonical \cup DOMAIN AliasOf)) =>
        /\ Returned
        /\ ~Res.ok
        /\ Res.kind = "UnknownMethod"
        /\ Res.msg = <<"Unknown method: ", req.method>>
        /\ invoked = None
        /\ calls = <<>>

C6_Witness ==
    /\ Returned
    /\ req.method = "neon.health"
    /\ DOMAIN req.params # {}
    /\ Res.kind = "UnknownMethod"

RECURSIVE Replay(_, _, _)
\* dispatch run against a given sequence of remote replies
Replay(st, rs, key) ==
    IF rs = <<>> \/ st.pc # "wait" THEN st
    ELSE Replay(Step(st, Head(rs), key), Tail(rs), key)

InvokedOp(o) == IF IsSome(o) THEN o[1].op ELSE "none"

\* C7: dispatching an alias is observationally identical to dispatching its
\* canonical name: same remote calls with the same arguments, and the same
\* result or error for the same remote replies.
C7_AliasEquivalence ==
    (Dispatched /\ req.method \in DOMAIN AliasOf) =>
        LET st == Replay(Start(AliasOf[req.method], req.params, api_key, org_id),
                         replies, api_key)
        IN  /\ st.pc = pc
            /\ InvokedOp(st.invoked) = InvokedOp(invoked)
            /\ st.invoked = invoked
            /\ st.calls = calls
            /\ st.result = result

C7_Witness ==
    /\ Returned
    /\ req.method = "sql"
    /\ Len(calls) = 2
    /\ Len(replies) = 2
    /\ Res.ok

\* C8: ping issues one GET /projects?org_id=<org>&limit=1 and returns true
\* exactly when the remote answered 2xx; a non-2xx status gives false without
\* raising; it raises only on a transport failure.
C8_PingIff2xx ==
    (Dispatched /\ req.method = "health") =>
        /\ Len(calls) = 1
        /\ calls[1].verb = "GET"
        /\ calls[1].url = <<API_BASE, "/projects?org_id=">> \o org_id \o <<"&limit=">>
        /\ calls[1].limit = Some(1)
        /\ (Len(replies) = 1) = Returned
        /\ Returned =>
              IF replies[1].transport
              THEN ~Res.ok /\ Res.kind = "TransportError"
              ELSE /\ Res.ok
                   /\ Res.value[1].flag =
                         (replies[1].status >= 200 /\ replies[1].status <= 299)

C8_Witness ==
    /\ Returned
    /\ req.method = "health"
    /\ ~replies[1].transport
    /\ replies[1].status = 404
    /\ Res.ok
    /\ Res.value[1].flag = FALSE

IsControlPlane(r) == Len(r.url) >= 1 /\ r.url[1] = API_BASE

\* C9 as stated: every outbound request, the data-plane POST included, carries
\* Authorization: Bearer <api_key> and Accept: application/json.
C9_EveryRequestAuthorized ==
    \A i \in 1..Len(calls) :
        /\ calls[i].headers.Authorization = <<"Bearer ">> \o api_key
        /\ calls[i].headers.Accept = <<"application/json">>

\* C9 (amended): every control-plane request carries Authorization: Bearer
\* <api_key> and Accept: application/json; the data-plane POST https://<host>/sql
\* carries neither, but Content-Type: application/json and a
\* Neon-Connection-String header holding the API key.
C9_ControlPlaneAuthorized ==
    \A i \in 1..Len(calls) :
        IF IsSqlPost(calls[i])
        THEN /\ ~IsControlPlane(calls[i])
             /\ calls[i].headers.Authorization = NoHeader
             /\ calls[i].headers.Accept = NoHeader
             /\ calls[i].headers.ContentType = <<"application/json">>
             /\ \E k \in 1..Len(calls[i].headers.NeonConnectionString) :
                   <<calls[i].headers.NeonConnectionString[k]>> = api_key
        ELSE /\ IsControlPlane(calls[i])
             /\ calls[i].headers.Authorization = <<"Bearer ">> \o api_key
             /\ calls[i].headers.Accept = <<"application/json">>

C9_Witness ==
    /\ Len(calls) = 2
    /\ invoked[1].op = "run_sql"
    /\ calls[1].verb = "GET"
    /\ calls[1].headers.Authorization = <<"Bearer ">> \o api_key
    /\ IsSqlPost(calls[2])
    /\ calls[2].headers.Authorization = NoHeader

LimitGiven ==
    /\ Dispatched
    /\ req.method \in {"neon.projects", "projects"}
    /\ "limit" \in DOMAIN req.params

\* the limit list_projects was called with, and the one in the URL it requested
PassedLimit == invoked[1].args.limit[1]

\* L is the 32-bit two's complement reading of the low 32 bits of the limbs
IsLow32(L, limbs) ==
    /\ L % Limb = limbs[4]
    /\ (L \div Limb) % Limb = limbs[3]
    /\ (L \div Limb) >= 0 - HalfLimb
    /\ (L \div Limb) < HalfLimb

\* C10 as stated: a JSON integer limit is narrowed to 32 bits, and a JSON
\* number that is not an integer is truncated to its integer part and passed.
C10_NarrowedAndTruncated ==
    LimitGiven =>
        /\ req.params["limit"].kind = "int" =>
              IsLow32(PassedLimit, req.params["limit"].n)
        /\ req.params["limit"].kind = "float" =>
              PassedLimit = req.params["limit"].n[1]

\* C10 (amended): a JSON integer limit (within i64) is narrowed to its low 32
\* bits; a JSON number that is not an i64 integer (3.7, 3.0, 2^63) is not
\* truncated: the default 10 is passed to list_projects in its place.
C10_NarrowedOrDefault ==
    LimitGiven =>
        /\ IsSome(invoked)
        /\ invoked[1].op = "list_projects"
        /\ calls[1].limit = Some(PassedLimit)
        /\ req.params["limit"].kind = "int" =>
              IsLow32(PassedLimit, req.params["limit"].n)
        /\ req.params["limit"].kind \in {"float", "biguint"} => PassedLimit = 10

C10_Witness ==
    /\ LimitGiven
    /\ req.params["limit"] = JFloat(3, 7)
    /\ PassedLimit = 10
    /\ calls[1].limit = Some(10)

(***************************************************************************)
(* Properties of on_start, health_check and the published method list      *)
(***************************************************************************)
\* C12: the startup probe performs exactly one ping; a transport failure
\* makes on_start fail with that error (logged as an error); a response that
\* is not 2xx is only logged as a warning and on_start succeeds, exactly as
\* it does for a 2xx response.
C12_StartupProbe ==
    entry = "on_start" =>
        /\ Len(calls) = 1
        /\ calls[1].verb = "GET"
        /\ calls[1].url = <<API_BASE, "/projects?org_id=">> \o org_id \o <<"&limit=">>
        /\ Returned =>
              /\ Len(replies) = 1
              /\ replies[1].transport =>
                    /\ ~Res.ok
                    /\ Res.kind = "TransportError"
                    /\ logs = <<"info", "error">>
              /\ ~replies[1].transport =>
                    /\ Res = Ok(Unit)
                    /\ logs = <<"info", IF replies[1].status \in 200..299 THEN "info"
                                        ELSE "warn">>

C12_Witness ==
    /\ entry = "on_start"
    /\ Returned
    /\ ~replies[1].transport
    /\ replies[1].status = 404
    /\ Res.ok
    /\ logs[2] = "warn"

Tokens(s) == {s[i] : i \in 1..Len(s)}
Credential == Tokens(api_key) \cup Tokens(org_id)

\* the same request with the same remote replies on a daemon whose API key is k
RunWithKey(k) == Replay(Start(req.method, req.params, k, org_id), replies, k)

\* C13: neither the API key nor the org id appears in what the service hands
\* back for a local client: whatever the method, the parameters and the
\* remote's replies (error replies and transport failures included), the
\* error message of dispatch and the health status of health_check hold no
\* credential, and a daemon differing only in its API key returns the very
\* same result for the same remote replies.
C13_NoCredentialInPayload ==
    Returned =>
        /\ entry = "dispatch" =>
              /\ Tokens(Res.msg) \cap Credential = {}
              /\ \A k \in ApiKeys :
                    /\ RunWithKey(k).pc = "done"
                    /\ RunWithKey(k).result = result
        /\ entry = "health_check" =>
              /\ Res.neon_api.ok = (~replies[1].transport /\ replies[1].status \in 200..299)
              /\ Res.neon_api.ok => Res.neon_api.message = None
              /\ ~Res.neon_api.ok =>
                    /\ Res.neon_api.latency_ms = None
                    /\ Res.neon_api.message =
                          Some(IF replies[1].transport THEN <<"Failed to ping Neon API">>
                               ELSE <<"API returned error">>)
                    /\ Tokens(Res.neon_api.message[1]) \cap Credential = {}

C13_Witness ==
    /\ Returned
    /\ entry = "dispatch"
    /\ Len(calls) = 2
    /\ \E i \in 1..Len(calls[2].headers.NeonConnectionString) :
          <<calls[2].headers.NeonConnectionString[i]>> = api_key
    /\ replies[2].transport
    /\ ~Res.ok

\* dispatch took the method name for one of its table
Accepted == pc = "wait" \/ (Returned /\ ~(~Res.ok /\ Res.kind = "UnknownMethod"))

\* C14: the published method list holds exactly the canonical names of the
\* dispatcher's method table, each once, and no short alias: every advertised
\* name is accepted by dispatch, every canonical name dispatch accepts (health
\* included) is described in the list, and no other name is advertised.
C14_ListIsMethodTable ==
    /\ \A i, j \in 1..Len(method_list) :
          method_list[i].name = method_list[j].name => i = j
    /\ Published \cap DOMAIN AliasOf = {}
    /\ Published \subseteq Canonical
    /\ Dispatched =>
          /\ req.method \in Published => Accepted
          /\ (Accepted /\ req.method \notin DOMAIN AliasOf) => req.method \in Published

\* the parameters a handler reads without requiring them
OptionalOf(method) ==
    CASE method = "neon.projects" -> {"limit"}
      [] method \in {"neon.tables", "neon.schema", "neon.sql"} -> {"database"}
      [] method = "neon.create_branch" -> {"name", "parent_id"}
      [] method = "neon.connection_string" -> {"branch_id", "database", "pooled"}
      [] OTHER -> {}

\* the JSON value is not of the kind the parameter is read as
WrongKind(name, v) ==
    CASE name = "limit" -> ~(v.kind = "int")
      [] name = "pooled" -> v.kind # "bool"
      [] OTHER -> v.kind # "string"

\* the optional parameters of the request that are present but of the wrong kind
Miskinded ==
    {name \in DOMAIN req.params \cap OptionalOf(CanonicalOf(req.method)) :
        WrongKind(name, req.params[name])}

\* the request without them
Stripped == [name \in DOMAIN req.params \ Miskinded |-> req.params[name]]

\* C20: an optional parameter that is present but of the wrong JSON kind is
\* never rejected: the request runs exactly as if the parameter were absent
\* (limit 10, database "neondb" or none for neon.connection_string, pooled
\* false, name / parent_id / branch_id absent), it goes on to the remote call
\* and never fails with BadRequest on account of that parameter.
C20_WrongKindIsAbsent ==
    (Dispatched /\ Miskinded # {}) =>
        /\ [pc |-> pc, invoked |-> invoked, calls |-> calls, result |-> result] =
              Replay(Start(req.method, Stripped, api_key, org_id), replies, api_key)
        /\ BadRequired = {} =>
              /\ Len(calls) >= 1
              /\ ~(Returned /\ ~Res.ok /\ Res.kind = "BadRequest")
              /\ "limit" \in Miskinded => invoked[1].args.limit = Some(10)
              /\ "database" \in Miskinded =>
                    invoked[1].args.database =
                        IF invoked[1].op = "get_connection_string" THEN None
                        ELSE <<"neondb">>
              /\ "pooled" \in Miskinded => invoked[1].args.pooled = FALSE
              /\ "name" \in Miskinded => invoked[1].args.name = None
              /\ "parent_id" \in Miskinded => invoked[1].args.parent_id = None
              /\ "branch_id" \in Miskinded => invoked[1].args.branch_id = None
        /\ (Returned /\ ~Res.ok /\ Res.kind = "BadRequest") => Res.msg[2] \notin Miskinded

C20_Witness ==
    /\ Dispatched
    /\ req.method = "neon.connection_string"
    /\ Miskinded = {"branch_id", "database", "pooled"}
    /\ Len(calls) = 1
    /\ invoked[1].args.pooled = FALSE

(***************************************************************************)
(* The lifecycle commands of src/main.rs                                   *)
(*                                                                         *)
(* A file's text and a command's output are sequences of characters or of  *)
(* larger tokens; str::trim and str::parse work on them as they do on the  *)
(* characters of a Rust string.                                            *)
(***************************************************************************)
DEFAULT_SOCKET == <<"~", "/.fgp/services/neon/daemon.sock">>
HOME == "/home/fgp"

\* shellexpand::tilde
tilde(path) == IF Len(path) >= 1 /\ path[1] = "~" THEN <<HOME>> \o Tail(path) ELSE path

PidFileOf(socket_path) == socket_path \o <<".pid">>

Whitespace == {" ", "\n", "\t"}

RECURSIVE trim_start(_)
trim_start(s) == IF s # <<>> /\ Head(s) \in Whitespace THEN trim_start(Tail(s)) ELSE s

RECURSIVE trim_end(_)
trim_end(s) ==
    IF s # <<>> /\ s[Len(s)] \in Whitespace THEN trim_end(SubSeq(s, 1, Len(s) - 1)) ELSE s

\* str::trim
trim(s) == trim_end(trim_start(s))

\* str::contains, for a pattern that is one token
contains(s, pat) == \E i \in 1..Len(s) : s[i] = pat

DigitChars == {"0", "1", "2", "3", "4", "5", "6", "7", "8", "9"}
DigitValue(c) ==
    CASE c = "0" -> 0 [] c = "1" -> 1 [] c = "2" -> 2 [] c = "3" -> 3 [] c = "4" -> 4
      [] c = "5" -> 5 [] c = "6" -> 6 [] c = "7" -> 7 [] c = "8" -> 8 [] c = "9" -> 9

RECURSIVE DecimalValue(_)
DecimalValue(ds) ==
    IF ds = <<>> THEN 0
    ELSE 10 * DecimalValue(SubSeq(ds, 1, Len(ds) - 1)) + DigitValue(ds[Len(ds)])

MaxDigits == 9   \* every decimal of at most 9 digits is within i32; the model's
                 \* files hold no longer one that is

\* str::parse::<i32>: an optional sign, then one or more digits, within i32
parse_i32(s) ==
    LET signed == s # <<>> /\ s[1] \in {"+", "-"}
        ds == IF signed THEN Tail(s) ELSE s
    IN  IF ds = <<>> \/ Len(ds) > MaxDigits \/ \E i \in 1..Len(ds) : ds[i] \notin DigitChars
        THEN None
        ELSE Some(IF signed /\ s[1] = "-" THEN 0 - DecimalValue(ds) ELSE DecimalValue(ds))

\* one thing the command did: an operation, its text and the PID it concerns
Evt(op, text, pid) == [op |-> op, text |-> text, pid |-> pid]

\* the Output of `ps -p <pid> -o comm=` given the process table
ps(procs, pid) ==
    IF pid \in DOMAIN procs /\ IsSome(procs[pid])
    THEN [spawned |-> TRUE, success |-> TRUE, stdout |-> procs[pid][1] \o <<"\n">>]
    ELSE [spawned |-> TRUE, success |-> FALSE, stdout |-> <<>>]

PsNotRun == [spawned |-> FALSE, success |-> FALSE, stdout |-> <<>>]

\* pid_matches_process that only asks whether the process exists
pid_matches_process_any_name(output, expected_name) ==
    /\ output.spawned
    /\ output.success

\* pid_matches_process, given what Command::output returned for ps
pid_matches_process(output, expected_name) ==
    /\ output.spawned
    /\ output.success
    /\ contains(trim(output.stdout), expected_name)

\* the command ends with an exit code
Exit(c, code) == [c EXCEPT !.pc = "exited", !.exit = Some(code)]

Sockets == {DEFAULT_SOCKET}

(***************************************************************************)
(* cmd_stop                                                                *)
(***************************************************************************)
CmdStop(socket) ==
    /\ cli.pc = "idle"
    /\ cli' = [NoCommand EXCEPT !.cmd = "stop", !.socket_path = tilde(socket),
                                !.pc = "try_socket"]
    /\ events' = <<>>
    /\ UNCHANGED <<environ, files, svcVars, slots>>

\* what asking the daemon to stop over its socket can come to
StopOutcomes == {"client_failed", "stop_failed", "not_ok", "ok"}

\* cmd_stop that takes any response to the stop request for a success
StopTrySocket_any_response(outcome) ==
    /\ cli.cmd = "stop"
    /\ cli.pc = "try_socket"
    /\ IF ~files.socket
       THEN /\ cli' = [cli EXCEPT !.pc = "read_pid"]
            /\ events' = events
       ELSE LET tried == IF outcome = "client_failed"
                         THEN <<Evt("FgpClient::new_failed", cli.socket_path, None)>>
                         ELSE <<Evt("FgpClient::new", cli.socket_path, None),
                                Evt("client.stop", <<outcome>>, None)>>
            IN  IF outcome \in {"ok", "not_ok"}
                THEN /\ cli' = Exit(cli, 0)
                     /\ events' = events \o tried \o
                                  <<Evt("println", <<"Daemon stopped.">>, None)>>
                ELSE /\ cli' = [cli EXCEPT !.pc = "read_pid"]
                     /\ events' = events \o tried
    /\ UNCHANGED <<environ, files, svcVars, slots>>

\* if the socket exists: FgpClient::new, client.stop(), response.ok
StopTrySocket(outcome) ==
    /\ cli.cmd = "stop"
    /\ cli.pc = "try_socket"
    /\ IF ~files.socket
       THEN /\ cli' = [cli EXCEPT !.pc = "read_pid"]
            /\ events' = events
       ELSE LET tried == IF outcome = "client_failed"
                         THEN <<Evt("FgpClient::new_failed", cli.socket_path, None)>>
                         ELSE <<Evt("FgpClient::new", cli.socket_path, None),
                                Evt("client.stop", <<outcome>>, None)>>
            IN  IF outcome = "ok"
                THEN /\ cli' = Exit(cli, 0)
                     /\ events' = events \o tried \o
                                  <<Evt("println", <<"Daemon stopped.">>, None)>>
                ELSE /\ cli' = [cli EXCEPT !.pc = "read_pid"]
                     /\ events' = events \o tried
    /\ UNCHANGED <<environ, files, svcVars, slots>>

\* read_to_string(pid_file), trim, parse
StopReadPid ==
    /\ cli.cmd = "stop"
    /\ cli.pc = "read_pid"
    /\ LET pid_file == PidFileOf(cli.socket_path)
           read == Evt("read_to_string", pid_file, None)
       IN  IF IsNone(files.pid_file)
           THEN /\ cli' = Exit(cli, 1)
                /\ events' = events \o
                     <<read, Evt("error", <<"Failed to read PID file - daemon may not be running">>,
                                 None)>>
           ELSE LET pid == parse_i32(trim(files.pid_file[1]))
                IN  IF IsNone(pid)
                    THEN /\ cli' = Exit(cli, 1)
                         /\ events' = events \o
                              <<read, Evt("error", <<"Invalid PID in file">>, None)>>
                    ELSE /\ cli' = [cli EXCEPT !.pc = "verify", !.pid = pid]
                         /\ events' = Append(events, read)
    /\ UNCHANGED <<environ, files, svcVars, slots>>

\* pid_matches_process(pid, "fgp-neon"), and the bail!() when it is false
StopVerify(output) ==
    /\ cli.cmd = "stop"
    /\ cli.pc = "verify"
    /\ LET asked == Evt(IF output.spawned /\ output.success THEN "ps" ELSE "ps_failed",
                        output.stdout, cli.pid)
       IN  IF pid_matches_process(output, "fgp-neon")
           THEN /\ cli' = [cli EXCEPT !.pc = "kill"]
                /\ events' = events \o <<asked, Evt("println", <<"Stopping fgp-neon daemon (PID: ", ")...">>,
                                                     cli.pid)>>
           ELSE /\ cli' = Exit(cli, 1)
                /\ events' = events \o
                     <<asked, Evt("error", <<"Refusing to stop PID ", ": unexpected process">>,
                                  cli.pid)>>
    /\ UNCHANGED <<environ, files, svcVars, slots>>

\* libc::kill(pid, SIGTERM)
StopKill ==
    /\ cli.cmd = "stop"
    /\ cli.pc = "kill"
    /\ cli' = [cli EXCEPT !.pc = "sleep"]
    /\ events' = Append(events, Evt("kill", <<"SIGTERM">>, cli.pid))
    /\ UNCHANGED <<environ, files, svcVars, slots>>

\* std::thread::sleep(500 ms)
StopSleep ==
    /\ cli.cmd = "stop"
    /\ cli.pc = "sleep"
    /\ cli' = [cli EXCEPT !.pc = "cleanup"]
    /\ events' = Append(events, Evt("sleep", <<"500ms">>, None))
    /\ UNCHANGED <<environ, files, svcVars, slots>>

\* cleanup_socket and remove_file, their results ignored
StopCleanup(socket_removed, pid_file_removed) ==
    /\ cli.cmd = "stop"
    /\ cli.pc = "cleanup"
    /\ cli' = Exit(cli, 0)
    /\ files' = [socket |-> files.socket /\ ~socket_removed,
                 pid_file |-> IF pid_file_removed THEN None ELSE files.pid_file]
    /\ events' = events \o
         <<Evt("cleanup_socket", cli.socket_path, None),
           Evt("remove_file", PidFileOf(cli.socket_path), None),
           Evt("println", <<"Daemon stopped.">>, None)>>
    /\ UNCHANGED <<environ, svcVars, slots>>

(***************************************************************************)
(* cmd_status                                                              *)
(***************************************************************************)
HealthRequest == <<"{\"id\":\"status\",\"v\":1,\"method\":\"health\",\"params\":{}}">>

CmdStatus(socket) ==
    /\ cli.pc = "idle"
    /\ cli' = [NoCommand EXCEPT !.cmd = "status", !.socket_path = tilde(socket),
                                !.pc = "check"]
    /\ events' = <<>>
    /\ UNCHANGED <<environ, files, svcVars, slots>>

\* cmd_status that connects without looking whether the socket file exists
StatusCheck_connect_first(connected) ==
    /\ cli.cmd = "status"
    /\ cli.pc = "check"
    /\ IF connected /\ files.socket
       THEN /\ cli' = [cli EXCEPT !.pc = "talk"]
            /\ events' = Append(events, Evt("connect", cli.socket_path, None))
       ELSE /\ cli' = Exit(cli, 0)
            /\ events' = events \o
                 <<Evt("connect_failed", cli.socket_path, None),
                   Evt("println", <<"Status: NOT RESPONDING">>, None),
                   Evt("println", <<"Socket exists but connection failed: ">>, None)>>
    /\ UNCHANGED <<environ, files, svcVars, slots>>

\* Path::exists, then UnixStream::connect
StatusCheck(connected) ==
    /\ cli.cmd = "status"
    /\ cli.pc = "check"
    /\ IF ~files.socket
       THEN /\ cli' = Exit(cli, 0)
            /\ events' = events \o
                 <<Evt("println", <<"Status: NOT RUNNING">>, None),
                   Evt("println", <<"Socket ">> \o cli.socket_path \o <<" does not exist">>,
                       None)>>
       ELSE IF connected
       THEN /\ cli' = [cli EXCEPT !.pc = "talk"]
            /\ events' = Append(events, Evt("connect", cli.socket_path, None))
       ELSE /\ cli' = Exit(cli, 0)
            /\ events' = events \o
                 <<Evt("connect_failed", cli.socket_path, None),
                   Evt("println", <<"Status: NOT RESPONDING">>, None),
                   Evt("println", <<"Socket exists but connection failed: ">>, None)>>
    /\ UNCHANGED <<environ, files, svcVars, slots>>

\* what writing the request and reading the response can come to
TalkOutcomes == {"write_failed", "read_failed", "eof", "line"}

HealthResponse == <<"{\"id\":\"status\",\"ok\":true}", "\n">>

\* writeln!(request)?; flush()?; read_line(&mut response)?; the three println!
StatusTalk(io) ==
    /\ cli.cmd = "status"
    /\ cli.pc = "talk"
    /\ LET wrote == Evt("writeln", HealthRequest \o <<"\n">>, None)
           response == IF io = "line" THEN HealthResponse ELSE <<>>
       IN  CASE io = "write_failed" ->
                  /\ cli' = Exit(cli, 1)
                  /\ events' = Append(events, Evt("error", <<"writeln">>, None))
             [] io = "read_failed" ->
                  /\ cli' = Exit(cli, 1)
                  /\ events' = events \o <<wrote, Evt("error", <<"read_line">>, None)>>
             [] OTHER ->
                  /\ cli' = Exit(cli, 0)
                  /\ events' = events \o
                       <<wrote, Evt("read_line", response, None),
                         Evt("println", <<"Status: RUNNING">>, None),
                         Evt("println", <<"Socket: ">> \o cli.socket_path, None),
                         Evt("println", <<"Health: ">> \o trim(response), None)>>
    /\ UNCHANGED <<environ, files, svcVars, slots>>

(***************************************************************************)
(* get_neon_credentials and cmd_start                                      *)
(***************************************************************************)
CredentialsPath == tilde(<<"~", "/.config/neonctl/credentials.json">>)

\* serde_json::from_str::<NeonctlCredentials>: an object with a string access_token
parse_credentials(file) ==
    LET field == params_get(file.fields, "access_token")
    IN  IF file.json /\ IsSome(field) THEN as_str(field[1]) ELSE None

\* get_neon_credentials that prefers the credentials file to the variable
get_neon_credentials_file_first(env) ==
    LET asked == Evt("env::var", <<"NEON_API_KEY">>, None)
        read == Evt("read_to_string", CredentialsPath, None)
        token == IF IsSome(env.credentials) THEN parse_credentials(env.credentials[1]) ELSE None
    IN  IF IsSome(token) THEN [res |-> Ok(token[1]), did |-> <<read>>]
        ELSE IF IsSome(env.NEON_API_KEY)
        THEN [res |-> Ok(env.NEON_API_KEY[1]), did |-> <<read, asked>>]
        ELSE [res |-> Err("Error", <<"Failed to parse neonctl credentials">>, None, None),
              did |-> <<read, asked>>]

\* get_neon_credentials: its result and what it looked at, in order
get_neon_credentials(env) ==
    LET asked == Evt("env::var", <<"NEON_API_KEY">>, None)
        read == Evt("read_to_string", CredentialsPath, None)
    IN  IF IsSome(env.NEON_API_KEY)
        THEN [res |-> Ok(env.NEON_API_KEY[1]), did |-> <<asked>>]
        ELSE IF IsNone(env.credentials)
        THEN [res |-> Err("Error",
                          <<"No NEON_API_KEY set and neonctl credentials not found.">>,
                          None, None),
              did |-> <<asked, read>>]
        ELSE LET token == parse_credentials(env.credentials[1])
             IN  IF IsNone(token)
                 THEN [res |-> Err("Error", <<"Failed to parse neonctl credentials">>,
                                   None, None),
                       did |-> <<asked, read>>]
                 ELSE [res |-> Ok(token[1]), did |-> <<asked, read>>]

DaemonPid == 42   \* the PID of the detached child

Digits == <<"0", "1", "2", "3", "4", "5", "6", "7", "8", "9">>

\* i32::to_string of a PID
RECURSIVE pid_to_string(_)
pid_to_string(n) ==
    IF n < 10 THEN <<Digits[n + 1]>>
    ELSE Append(pid_to_string(n \div 10), Digits[(n % 10) + 1])

CmdStart(socket, foreground) ==
    /\ cli.pc = "idle"
    /\ cli' = [NoCommand EXCEPT !.cmd = "start", !.foreground = foreground,
                                !.socket_path = tilde(socket), !.pc = "mkdir"]
    /\ events' = <<>>
    /\ UNCHANGED <<environ, files, svcVars, slots>>

\* create_dir_all(parent)?
StartMkdir(created) ==
    /\ cli.cmd = "start"
    /\ cli.pc = "mkdir"
    /\ IF created
       THEN /\ cli' = [cli EXCEPT !.pc = "credentials"]
            /\ events' = Append(events, Evt("create_dir_all", <<>>, None))
       ELSE /\ cli' = Exit(cli, 1)
            /\ events' = events \o
                 <<Evt("create_dir_all", <<>>, None),
                   Evt("error", <<"Failed to create socket directory">>, None)>>
    /\ UNCHANGED <<environ, files, svcVars, slots>>

\* let api_key = get_neon_credentials()?
StartCredentials ==
    /\ cli.cmd = "start"
    /\ cli.pc = "credentials"
    /\ LET r == get_neon_credentials(environ)
       IN  IF r.res.ok
           THEN /\ cli' = [cli EXCEPT !.pc = "org_id", !.api_key = r.res.value]
                /\ events' = events \o r.did
           ELSE /\ cli' = Exit(cli, 1)
                /\ events' = events \o r.did \o <<Evt("error", r.res.msg, None)>>
    /\ UNCHANGED <<environ, files, svcVars, slots>>

\* cmd_start that constructs the service before it detaches
StartOrgId_construct_first ==
    /\ cli.cmd = "start"
    /\ cli.pc = "org_id"
    /\ LET asked == Evt("env::var", <<"NEON_ORG_ID">>, None)
       IN  IF IsSome(environ.NEON_ORG_ID)
           THEN /\ cli' = [cli EXCEPT !.pc = "construct",
                                      !.org_id = environ.NEON_ORG_ID]
                /\ events' = events \o
                     <<asked, Evt("println", <<"Starting fgp-neon daemon...">>, None),
                       Evt("println", <<"Socket: ">> \o cli.socket_path, None),
                       Evt("println", <<"Org ID: ">> \o environ.NEON_ORG_ID[1], None)>>
           ELSE /\ cli' = Exit(cli, 1)
                /\ events' = events \o
                     <<asked, Evt("error", <<"NEON_ORG_ID environment variable not set.">>,
                                  None)>>
    /\ UNCHANGED <<environ, files, svcVars, slots>>

\* let org_id = env::var("NEON_ORG_ID")?; the three println!
StartOrgId ==
    /\ cli.cmd = "start"
    /\ cli.pc = "org_id"
    /\ LET asked == Evt("env::var", <<"NEON_ORG_ID">>, None)
       IN  IF IsSome(environ.NEON_ORG_ID)
           THEN /\ cli' = [cli EXCEPT !.pc = IF cli.foreground THEN "construct"
                                              ELSE "daemonize",
                                      !.org_id = environ.NEON_ORG_ID]
                /\ events' = events \o
                     <<asked, Evt("println", <<"Starting fgp-neon daemon...">>, None),
                       Evt("println", <<"Socket: ">> \o cli.socket_path, None),
                       Evt("println", <<"Org ID: ">> \o environ.NEON_ORG_ID[1], None)>>
           ELSE /\ cli' = Exit(cli, 1)
                /\ events' = events \o
                     <<asked, Evt("error", <<"NEON_ORG_ID environment variable not set.">>,
                                  None)>>
    /\ UNCHANGED <<environ, files, svcVars, slots>>

\* Daemonize::new().pid_file(..).working_directory("/tmp").start()
StartDaemonize(detached) ==
    /\ cli.cmd = "start"
    /\ cli.pc = "daemonize"
    /\ IF detached
       THEN /\ cli' = [cli EXCEPT !.pc = "construct", !.pid = Some(DaemonPid)]
            /\ files' = [files EXCEPT !.pid_file = Some(pid_to_string(DaemonPid))]
            /\ events' = events \o
                 <<Evt("daemonize", <<"/tmp">>, Some(DaemonPid)),
                   Evt("write", PidFileOf(cli.socket_path), Some(DaemonPid))>>
       ELSE /\ cli' = Exit(cli, 1)
            /\ files' = files
            /\ events' = events \o
                 <<Evt("daemonize", <<"/tmp">>, None),
                   Evt("eprintln", <<"Failed to daemonize: ">>, None)>>
    /\ UNCHANGED <<environ, svcVars, slots>>

\* what NeonService::new can come to
ConstructOutcomes == {"client_failed", "runtime_failed", "ok"}

\* NeonService::new(api_key, org_id)?: NeonClient::new, then Runtime::new
StartConstruct(outcome) ==
    /\ cli.cmd = "start"
    /\ cli.pc = "construct"
    /\ LET client == Evt("NeonClient::new", <<>>, None)
           runtime == Evt("Runtime::new", <<>>, None)
       IN  CASE outcome = "client_failed" ->
                  /\ cli' = Exit(cli, 1)
                  /\ events' = events \o
                       <<client, Evt("error", <<"Failed to create NeonService">>, None)>>
             [] outcome = "runtime_failed" ->
                  /\ cli' = Exit(cli, 1)
                  /\ events' = events \o
                       <<client, runtime,
                         Evt("error", <<"Failed to create NeonService">>, None)>>
             [] OTHER ->
                  /\ cli' = [cli EXCEPT !.pc = "serve",
                                        !.service = Some([api_key |-> cli.api_key[1],
                                                          org_id |-> cli.org_id[1]])]
                  /\ events' = events \o <<client, runtime>>
    /\ UNCHANGED <<environ, files, svcVars, slots>>

\* what FgpServer::new and server.serve() can come to
ServeOutcomes == {"server_failed", "serve_failed", "serving"}

\* FgpServer::new(service, &socket_path)?; server.serve()?
StartServe(outcome) ==
    /\ cli.cmd = "start"
    /\ cli.pc = "serve"
    /\ LET server == Evt("FgpServer::new", cli.socket_path, None)
           serve == Evt("serve", cli.socket_path, None)
       IN  CASE outcome = "server_failed" ->
                  /\ cli' = Exit(cli, 1)
                  /\ files' = files
                  /\ events' = events \o
                       <<server, Evt("error", <<"Failed to create FGP server">>, None)>>
             [] outcome = "serve_failed" ->
                  /\ cli' = Exit(cli, 1)
                  /\ files' = files
                  /\ events' = events \o
                       <<server, serve, Evt("error", <<"Server error">>, None)>>
             [] OTHER ->
                  /\ cli' = [cli EXCEPT !.pc = "serving"]
                  /\ files' = [files EXCEPT !.socket = TRUE]
                  /\ events' = events \o <<server, serve>>
    /\ UNCHANGED <<environ, svcVars, slots>>

\* the command is over (or the daemon is left serving); the next one may be typed
CliReturn ==
    /\ cli.pc \in {"exited", "serving"}
    /\ cli' = NoCommand
    /\ events' = <<>>
    /\ UNCHANGED <<environ, files, svcVars, slots>>

(***************************************************************************)
(* The command line as a state machine                                     *)
(***************************************************************************)
ApiKeyVars == {None, Some(<<"key_env">>)}
OrgIdVars == {None, Some(<<"org-1">>)}

CredentialFiles ==
    {None,
     Some([json |-> FALSE, fields |-> <<>>]),
     Some([json |-> TRUE, fields |-> <<>>]),
     Some([json |-> TRUE, fields |-> [access_token |-> JInt(I64_7)]]),
     Some([json |-> TRUE, fields |-> [access_token |-> JString(<<"key_file">>)]])}

Comms == {None, Some(<<"fgp-neon">>), Some(<<"fgp-neon", "-dev">>), Some(<<"nginx">>)}
ProcTables == {[p \in {DaemonPid} |-> c] : c \in Comms}

PidFiles ==
    {None, Some(<<"4", "2">>), Some(<<"4", "2", "\n">>), Some(<<"7">>), Some(<<"-", "1">>),
     Some(<<"x">>), Some(<<>>)}

Environs ==
    [NEON_API_KEY : ApiKeyVars, credentials : CredentialFiles, NEON_ORG_ID : OrgIdVars,
     procs : ProcTables]

\* the service's own state, at rest while the command line is looked at
ServiceAtRest ==
    /\ api_key = <<"key_A">>
    /\ org_id = <<"org-1">>
    /\ pc = "idle"
    /\ req = [method |-> "", params |-> <<>>]
    /\ invoked = None
    /\ calls = <<>>
    /\ replies = <<>>
    /\ result = None
    /\ entry = "none"
    /\ logs = <<>>

InitCli ==
    /\ ServiceAtRest
    /\ environ \in Environs
    /\ files \in [socket : BOOLEAN, pid_file : PidFiles]
    /\ cli = NoCommand
    /\ events = <<>>
    /\ slots = NoSlots

NextCli ==
    \/ \E socket \in Sockets : \E foreground \in BOOLEAN : CmdStart(socket, foreground)
    \/ \E created \in BOOLEAN : StartMkdir(created)
    \/ StartCredentials
    \/ StartOrgId
    \/ \E detached \in BOOLEAN : StartDaemonize(detached)
    \/ \E outcome \in ConstructOutcomes : StartConstruct(outcome)
    \/ \E outcome \in ServeOutcomes : StartServe(outcome)
    \/ \E socket \in Sockets : CmdStop(socket)
    \/ \E outcome \in StopOutcomes : StopTrySocket(outcome)
    \/ StopReadPid
    \/ /\ cli.pc = "verify"
       /\ \E output \in {PsNotRun, ps(environ.procs, cli.pid[1])} : StopVerify(output)
    \/ StopKill
    \/ StopSleep
    \/ \E socket_removed \in BOOLEAN : \E pid_file_removed \in BOOLEAN :
          StopCleanup(socket_removed, pid_file_removed)
    \/ \E socket \in Sockets : CmdStatus(socket)
    \/ \E connected \in BOOLEAN : StatusCheck(connected)
    \/ \E io \in TalkOutcomes : StatusTalk(io)
    \/ CliReturn

SpecCli == InitCli /\ [][NextCli]_vars

(***************************************************************************)
(* Properties of the lifecycle commands                                    *)
(***************************************************************************)
Did(op) == {i \in 1..Len(events) : events[i].op = op}
Stopping == cli.cmd = "stop"

\* the answers of ps under which the process is not a running fgp-neon
Refuted ==
    {i \in 1..Len(events) :
        \/ events[i].op = "ps_failed"
        \/ events[i].op = "ps" /\ ~contains(trim(events[i].text), "fgp-neon")}

\* C11: on the PID-file path of stop, SIGTERM goes to the PID read from
\* <socket>.pid, and only after ps has shown a live process of that PID whose
\* command name contains "fgp-neon"; when the name differs, ps fails or the
\* process does not exist, stop fails with "unexpected process" and exit code
\* 1, sends no signal and removes neither the socket file nor the PID file.
C11_SignalOnlyVerifiedProcess ==
    Stopping =>
        /\ \A k \in Did("kill") :
              /\ events[k].pid = cli.pid
              /\ events[k].text = <<"SIGTERM">>
              /\ cli.pc # "exited" => cli.pid = parse_i32(trim(files.pid_file[1]))
              /\ \E i \in 1..(k - 1) :
                    /\ events[i].op = "ps"
                    /\ events[i].pid = cli.pid
                    /\ contains(trim(events[i].text), "fgp-neon")
                    /\ environ.procs[cli.pid[1]] # None
        /\ Refuted # {} =>
              /\ cli.pc = "exited"
              /\ cli.exit = Some(1)
              /\ events[Len(events)] =
                    Evt("error", <<"Refusing to stop PID ", ": unexpected process">>, cli.pid)
              /\ Did("kill") = {}
              /\ Did("cleanup_socket") = {}
              /\ Did("remove_file") = {}
              /\ IsSome(files.pid_file)

C11_Witness ==
    /\ Stopping
    /\ cli.exit = Some(1)
    /\ cli.pid = Some(DaemonPid)
    /\ files.socket
    /\ \E i \in Did("ps") : trim(events[i].text) = <<"nginx">>

Starting == cli.cmd = "start"

\* the credentials file is there and is a JSON object with a string access_token
FileHasToken ==
    /\ IsSome(environ.credentials)
    /\ environ.credentials[1].json
    /\ "access_token" \in DOMAIN environ.credentials[1].fields
    /\ environ.credentials[1].fields["access_token"].kind = "string"

Unresolved == (IsNone(environ.NEON_API_KEY) /\ ~FileHasToken) \/ IsNone(environ.NEON_ORG_ID)

\* C15: at start, when NEON_API_KEY is set its value is the API key and the
\* credentials file is not read; only when it is not set is the access_token
\* of the credentials file used; when both fail, or NEON_ORG_ID is not set,
\* start ends with exit code 1 before detaching: no PID file is written, no
\* service constructed and no socket served.
C15_CredentialResolution ==
    Starting =>
        /\ IsSome(environ.NEON_API_KEY) =>
              /\ Did("read_to_string") = {}
              /\ IsSome(cli.api_key) => cli.api_key = environ.NEON_API_KEY
        /\ (IsNone(environ.NEON_API_KEY) /\ IsSome(cli.api_key)) =>
              /\ FileHasToken
              /\ cli.api_key = Some(environ.credentials[1].fields["access_token"].s)
              /\ \E i \in Did("read_to_string") : events[i].text = CredentialsPath
        /\ IsSome(cli.service) =>
              cli.service[1] = [api_key |-> cli.api_key[1], org_id |-> environ.NEON_ORG_ID[1]]
        /\ Unresolved =>
              /\ cli.pc \in {"mkdir", "credentials", "org_id", "exited"}
              /\ cli.pc = "exited" => cli.exit = Some(1)
              /\ Did("daemonize") = {}
              /\ Did("write") = {}
              /\ Did("NeonClient::new") = {}
              /\ Did("serve") = {}
              /\ IsNone(cli.service)

C15_Witness ==
    /\ Starting
    /\ IsNone(environ.NEON_API_KEY)
    /\ cli.pc = "serving"
    /\ cli.service[1].api_key = <<"key_file">>

StatusDone == cli.cmd = "status" /\ cli.pc = "exited"

Reported(status) == {i \in Did("println") : events[i].text = <<status>>}
ReportedAny ==
    Reported("Status: NOT RUNNING") \cup Reported("Status: NOT RESPONDING")
        \cup Reported("Status: RUNNING")

\* one request line written, one read_line made, both before RUNNING is printed
OneExchangeBeforeRunning ==
    /\ Cardinality(Did("writeln")) = 1
    /\ Cardinality(Did("read_line")) = 1
    /\ \E w \in Did("writeln") : \E r \in Did("read_line") :
       \E p \in Reported("Status: RUNNING") :
          /\ w < r
          /\ r < p
          /\ events[w].text =
                <<"{\"id\":\"status\",\"v\":1,\"method\":\"health\",\"params\":{}}", "\n">>

\* what holds of status whatever comes of the exchange
StatusBySocket ==
    /\ ~files.socket <=> Reported("Status: NOT RUNNING") # {}
    /\ ~files.socket => (Did("connect") \cup Did("connect_failed") = {} /\ cli.exit = Some(0))
    /\ Did("connect_failed") # {} <=> Reported("Status: NOT RESPONDING") # {}
    /\ Did("connect_failed") # {} => cli.exit = Some(0)
    /\ Cardinality(ReportedAny) <= 1

\* C16 as stated: status reports exactly one of NOT RUNNING (socket file
\* absent, exit 0, no connection attempted), NOT RESPONDING (connect fails,
\* exit 0) and RUNNING (connect succeeds), and before RUNNING exactly one
\* health request line is written and one response line read.
C16_ThreeOutcomes ==
    StatusDone =>
        /\ StatusBySocket
        /\ Cardinality(ReportedAny) = 1
        /\ Did("connect") # {} =>
              /\ Reported("Status: RUNNING") # {}
              /\ cli.exit = Some(0)
              /\ OneExchangeBeforeRunning

\* C16 (amended): NOT RUNNING and NOT RESPONDING as stated; when connect
\* succeeds, RUNNING is reported (exit 0) if the request line is written and
\* read_line returns, be it with a line or with nothing at end of stream, and
\* then exactly one request line was written and one read_line made before
\* RUNNING; if the write or the read fails, status reports none of the three
\* and exits with code 1.
C16_ThreeOutcomesOrIoError ==
    StatusDone =>
        /\ StatusBySocket
        /\ Did("connect") # {} =>
              IF Did("error") = {}
              THEN /\ Reported("Status: RUNNING") # {}
                   /\ cli.exit = Some(0)
                   /\ OneExchangeBeforeRunning
              ELSE /\ ReportedAny = {}
                   /\ cli.exit = Some(1)
                   /\ Did("read_line") = {}
        /\ Did("connect") = {} => Cardinality(ReportedAny) = 1

C16_Witness ==
    /\ StatusDone
    /\ Reported("Status: RUNNING") # {}
    /\ \E r \in Did("read_line") : events[r].text = HealthResponse

StoppedBySocket == \E i \in Did("client.stop") : events[i].text = <<"ok">>

\* the PID file, as stop finds it, holds no PID
NoPidInFile ==
    \/ IsNone(files.pid_file)
    \/ IsNone(parse_i32(trim(files.pid_file[1])))

\* every step of kind op comes once at most, and only after a step of kind before
After(op, before) ==
    /\ Cardinality(Did(op)) <= 1
    /\ \A k \in Did(op) : \E i \in Did(before) : i < k

\* C17: stop tries the socket first: when the socket file exists, the
\* connection is made and the stop request is answered ok, stop returns
\* success without reading the PID file, signalling or removing any file; in
\* every other case it goes on to the PID-file path, whose steps come in the
\* order read PID, verify process name, SIGTERM, wait 500 ms, remove socket
\* and PID files; a missing or unparsable PID file ends stop with exit code 1
\* before any signal.
C17_SocketFirstThenPidFile ==
    Stopping =>
        /\ StoppedBySocket =>
              /\ files.socket
              /\ cli.pc = "exited"
              /\ cli.exit = Some(0)
              /\ Did("read_to_string") = {}
              /\ Did("ps") \cup Did("ps_failed") = {}
              /\ Did("kill") = {}
              /\ Did("cleanup_socket") \cup Did("remove_file") = {}
        /\ (~files.socket /\ Did("cleanup_socket") = {}) =>
              Did("FgpClient::new") \cup Did("FgpClient::new_failed") \cup Did("client.stop") = {}
        /\ (~StoppedBySocket /\ cli.pc # "try_socket") =>
              (cli.pc = "read_pid" \/ Did("read_to_string") # {})
        /\ \A r \in Did("read_to_string") :
              /\ events[r].text = PidFileOf(cli.socket_path)
              /\ \A i \in Did("client.stop") \cup Did("FgpClient::new_failed") : i < r
        /\ Cardinality(Did("read_to_string")) <= 1
        /\ After("ps", "read_to_string")
        /\ After("ps_failed", "read_to_string")
        /\ After("kill", "ps")
        /\ After("sleep", "kill")
        /\ After("cleanup_socket", "sleep")
        /\ After("remove_file", "cleanup_socket")
        /\ \A k \in Did("sleep") : events[k].text = <<"500ms">>
        /\ (Did("read_to_string") # {} /\ Did("remove_file") = {} /\ NoPidInFile) =>
              /\ cli.pc = "exited"
              /\ cli.exit = Some(1)
              /\ Did("ps") \cup Did("ps_failed") = {}
              /\ Did("kill") = {}

C17_Witness ==
    /\ Stopping
    /\ \E i \in Did("client.stop") : events[i].text = <<"not_ok">>
    /\ Did("kill") # {}
    /\ Did("remove_file") # {}
    /\ cli.exit = Some(0)

Background == Starting /\ ~cli.foreground

\* C18: a background start resolves the credentials and the org id, then
\* detaches and writes the PID file <socket_path>.pid, then constructs the
\* service (HTTP client and async runtime), then serves; no runtime exists
\* before the detach, the PID file is written once at most and only by the
\* detached child, and a failed detach exits with code 1 without
\* constructing a service.
C18_DetachBeforeRuntime ==
    /\ Background =>
          /\ Cardinality(Did("daemonize")) <= 1
          /\ \A d \in Did("daemonize") :
                /\ IsSome(cli.api_key)
                /\ IsSome(cli.org_id)
                /\ \E i, j \in Did("env::var") :
                      /\ i < j
                      /\ j < d
                      /\ events[i].text = <<"NEON_API_KEY">>
                      /\ events[j].text = <<"NEON_ORG_ID">>
          /\ Cardinality(Did("write")) <= 1
          /\ \A d \in Did("daemonize") : events[d].pid # None => Did("write") = {d + 1}
          /\ \A w \in Did("write") :
                /\ events[w].text = cli.socket_path \o <<".pid">>
                /\ events[w].pid = Some(DaemonPid)
                /\ events[w - 1] = Evt("daemonize", <<"/tmp">>, Some(DaemonPid))
                /\ parse_i32(trim(files.pid_file[1])) = Some(DaemonPid)
          /\ \A r \in Did("NeonClient::new") \cup Did("Runtime::new") :
                \E w \in Did("write") : w < r
          /\ After("Runtime::new", "NeonClient::new")
          /\ After("serve", "Runtime::new")
          /\ IsSome(cli.service) => Did("Runtime::new") # {}
          /\ (\E d \in Did("daemonize") : events[d].pid = None) =>
                /\ cli.pc = "exited"
                /\ cli.exit = Some(1)
                /\ Did("write") = {}
                /\ Did("NeonClient::new") \cup Did("Runtime::new") \cup Did("serve") = {}
                /\ IsNone(cli.service)
    /\ (Starting /\ cli.foreground) => Did("daemonize") \cup Did("write") = {}

C18_Witness ==
    /\ Background
    /\ cli.pc = "serving"
    /\ files.socket
    /\ files.pid_file = Some(<<"4", "2">>)
    /\ Did("write") # {}

(***************************************************************************)
(* Concurrent dispatches on one service instance: each framework worker    *)
(* blocks in runtime.block_on on its own request (src/service.rs)          *)
(***************************************************************************)
MaxWorkers == 2   \* framework workers calling dispatch at the same time

Workers == 1..MaxWorkers

IdleSlot ==
    [pc |-> "idle", req |-> [method |-> "", params |-> <<>>], invoked |-> None,
     calls |-> <<>>, replies |-> <<>>, result |-> None]

\* the requests the workers are given
ConcRequests ==
    {[method |-> "neon.sql",
      params |-> [project_id |-> JString(<<"p">>), query |-> JString(<<"select 1">>),
                  branch_id |-> JString(<<"br_x">>)]],
     [method |-> "neon.tables",
      params |-> [project_id |-> JString(<<"q">>), branch_id |-> JString(<<"br_y">>),
                  database |-> JString(<<"d">>)]],
     [method |-> "neon.projects", params |-> [limit |-> JInt(I64_3)]],
     [method |-> "sql", params |-> [project_id |-> JString(<<"p">>)]]}

ConcEndpointLists ==
    {<<>>,
     <<[id |-> <<"eh1">>, host |-> <<"h1">>, branch_id |-> <<"br_x">>],
       [id |-> <<"eh2">>, host |-> <<"h2">>, branch_id |-> <<"br_y">>]>>}

\* the replies the remote gives them
ConcReplies(op, stage) ==
    {TransportFailure, Response(404, ObjectBody)} \cup
    IF op \in SqlOps /\ stage = 1
    THEN {Response(200, Body("endpoints", l, Len(l))) : l \in ConcEndpointLists}
    ELSE IF op = "list_projects" THEN {Response(200, Body("projects", <<>>, 1))}
    ELSE {Response(200, ObjectBody)}

SlotState(s) == [pc |-> s.pc, invoked |-> s.invoked, calls |-> s.calls, result |-> s.result]

\* a worker calls dispatch; it runs to its first remote call
CDispatch(w, r) ==
    /\ slots[w].pc = "idle"
    /\ LET st == Start(r.method, r.params, api_key, org_id)
       IN  slots' = [slots EXCEPT ![w] =
                        [pc |-> st.pc, req |-> r, invoked |-> st.invoked, calls |-> st.calls,
                         replies |-> <<>>, result |-> st.result]]
    /\ UNCHANGED <<svcVars, cliVars>>

\* a reply handled with the request another worker has in flight
CReply_crossed(w, reply) ==
    /\ slots[w].pc = "wait"
    /\ LET others == {v \in Workers : /\ v # w
                                      /\ slots[v].pc = "wait"
                                      /\ slots[v].invoked[1].op \in SqlOps
                                      /\ slots[w].invoked[1].op \in SqlOps}
           mine == IF others = {} THEN slots[w].invoked
                   ELSE slots[CHOOSE v \in others : TRUE].invoked
           st == Step([SlotState(slots[w]) EXCEPT !.invoked = mine], reply, api_key)
       IN  slots' = [slots EXCEPT ![w] =
                        [pc |-> st.pc, req |-> slots[w].req, invoked |-> st.invoked,
                         calls |-> st.calls, replies |-> Append(slots[w].replies, reply),
                         result |-> st.result]]
    /\ UNCHANGED <<svcVars, cliVars>>

\* the remote answers the request a worker is blocked on; its dispatch runs on
CReply(w, reply) ==
    /\ slots[w].pc = "wait"
    /\ LET st == Step(SlotState(slots[w]), reply, api_key)
       IN  slots' = [slots EXCEPT ![w] =
                        [pc |-> st.pc, req |-> slots[w].req, invoked |-> st.invoked,
                         calls |-> st.calls, replies |-> Append(slots[w].replies, reply),
                         result |-> st.result]]
    /\ UNCHANGED <<svcVars, cliVars>>

\* the worker hands the result to its client
CReturn(w) ==
    /\ slots[w].pc = "done"
    /\ slots' = [slots EXCEPT ![w] = IdleSlot]
    /\ UNCHANGED <<svcVars, cliVars>>

InitConc ==
    /\ api_key \in ApiKeys
    /\ org_id \in OrgIds
    /\ pc = "idle"
    /\ req = [method |-> "", params |-> <<>>]
    /\ invoked = None
    /\ calls = <<>>
    /\ replies = <<>>
    /\ result = None
    /\ entry = "none"
    /\ logs = <<>>
    /\ environ = NoEnviron
    /\ files = NoFiles
    /\ cli = NoCommand
    /\ events = <<>>
    /\ slots = [w \in Workers |-> IdleSlot]

NextConc ==
    \/ \E w \in Workers : \E r \in ConcRequests : CDispatch(w, r)
    \/ \E w \in Workers :
          /\ slots[w].pc = "wait"
          /\ \E reply \in ConcReplies(slots[w].invoked[1].op, Len(slots[w].calls)) :
                CReply(w, reply)
    \/ \E w \in Workers : CReturn(w)

SpecConc == InitConc /\ [][NextConc]_vars

\* what the request of worker w comes to when it is run alone against its replies
Alone(w) ==
    Replay(Start(slots[w].req.method, slots[w].req.params, api_key, org_id),
           slots[w].replies, api_key)

Independent ==
    \A w \in Workers :
        /\ slots[w].pc # "idle" => SlotState(slots[w]) = Alone(w)
        /\ slots[w].pc = "wait" =>
              ENABLED (\E reply \in ConcReplies(slots[w].invoked[1].op, Len(slots[w].calls)) :
                          CReply(w, reply))

\* C19: under any interleaving of concurrent dispatches on one service
\* instance the credential pair is never modified, and each request's remote
\* calls and result are those it makes when run alone against the replies to
\* its own calls: a concurrent request changes neither the endpoint host, the
\* query nor the parameters another one uses, and no request waits for another.
C19_RequestsIndependent ==
    /\ []Independent
    /\ [][api_key' = api_key /\ org_id' = org_id]_vars

C19_Witness ==
    /\ slots[1].pc = "wait"
    /\ slots[2].pc = "wait"
    /\ Len(slots[1].calls) = 2
    /\ Len(slots[2].calls) = 2
    /\ slots[1].calls[2].url # slots[2].calls[2].url
    /\ slots[1].calls[2].body # slots[2].calls[2].body

====
